---- MODULE Spec2Model ----
(***************************************************************************)
(* Systematic entity / relationship merge engine of the knowledge graph.   *)
(*                                                                         *)
(* Strings of the program are sequences of one-character strings, so that  *)
(* lower(), strip(), str() and the relation-id formatting are computed and *)
(* not assumed.  An attribute value is tagged with its Python kind.        *)
(***************************************************************************)
EXTENDS Integers, Sequences, FiniteSets, TLC

VARIABLES
    rules,          \* entity_config.systematic_merge["matching_rules"]: type -> rule list
    pc,             \* position of the batch being processed
    batch,          \* entities_batch handed to process_entities_systematic
    groups,         \* the EntityGroups it returned (flattened in dict order)
    store,          \* the nodes of the external store (table Nodes)
    source_item_id, \* the provenance id of the batch
    relations_list, \* the relations of the batch
    gi,             \* merge_groups_to_database: index of the next group
    ri,             \* process_relations_systematic: index of the next relation group
    entity_mapping, \* processed_entities of merge_groups_to_database
    calls,          \* the entity writes of the batch, one per group handled
    rcalls,         \* the relation groups of the batch handled, one record each
    relStore,       \* the edges of the external store (table Relation)
    prev,           \* the batch before this one and the store it left
    nbatches,       \* number of batches received
    failures,       \* number of store calls that have failed
    cy,             \* execute_cypher: position of the call
    max_retries,    \* execute_cypher: its parameter max_retries
    attempt,        \* execute_cypher: the loop variable
    last_error,     \* execute_cypher: the local last_error
    responses,      \* the answers of the store to the POSTs of the call
    slept,          \* the waits of the call, in seconds
    error,          \* the exception that has left the call
    workers,        \* the batches that are processed side by side
    closure         \* _apply_transitive_closure_systematic: its locals, step by step

\* the variables of one execute_cypher call
cvars == <<cy, max_retries, attempt, last_error, responses, slept, error>>

gvars == <<rules, pc, batch, groups, store>>

\* what process_entities_systematic leaves alone
mvars == <<source_item_id, relations_list, gi, ri, entity_mapping, calls, rcalls,
           relStore, prev, nbatches, failures, cvars, workers, closure>>

\* the variables of the merge pipeline
pvars == <<rules, pc, batch, groups, store, source_item_id, relations_list, gi, ri,
           entity_mapping, calls, rcalls, relStore, prev, nbatches, failures>>

vars == <<pvars, cvars, workers, closure>>

\* _apply_transitive_closure_systematic has not been entered
ClosureIdle == [at |-> "idle"]

\* last_error = None
NoError == [kind |-> "none", code |-> 0]

\* no execute_cypher call is being followed
CypherIdle ==
    /\ cy = "idle"
    /\ max_retries = 0
    /\ attempt = 0
    /\ last_error = NoError
    /\ responses = <<>>
    /\ slept = <<>>
    /\ error = NoError

-----------------------------------------------------------------------------
(* Bounds of the model                                                     *)

MaxBatch == 3

\* records in a batch of the merge specifications
MaxItems == 2

\* relations in a batch
MaxRelations == 2

\* batches processed one after the other
MaxBatches == 2

\* store calls that fail (execute_cypher raising after its retries)
MaxFailures == 1

\* the values of the parameter max_retries of execute_cypher are 0..MaxRetries
MaxRetries == 4

\* the store answers at most MaxPosts requests of one execute_cypher call
MaxPosts == 4

-----------------------------------------------------------------------------
(* Python values                                                           *)

Str(s) == [k |-> "str", v |-> s]
Lst(l) == [k |-> "list", v |-> l]
None == [k |-> "none"]

Range(s) == {s[i] : i \in 1..Len(s)}

Dict1(k1, v1) == [x \in {k1} |-> v1]

\* dict union, the right operand winning
Merge(d1, d2) ==
    [x \in DOMAIN d1 \cup DOMAIN d2 |-> IF x \in DOMAIN d2 THEN d2[x] ELSE d1[x]]

\* d[key] = val
Put(d, key, val) == Merge(d, Dict1(key, val))

\* the dict without some keys
Without(d, keys) == [x \in DOMAIN d \ keys |-> d[x]]

\* the dict restricted to some keys
Restrict(d, keys) == [x \in DOMAIN d \cap keys |-> d[x]]

\* if value not in list: list.append(value)
AppendUnique(list, value) == IF value \in Range(list) THEN list ELSE Append(list, value)

\* for value in values: if value and value not in list: list.append(value)
RECURSIVE AppendAllUnique(_, _)
AppendAllUnique(list, values) ==
    IF values = <<>> THEN list
    ELSE AppendAllUnique(IF Head(values) # <<>> THEN AppendUnique(list, Head(values)) ELSE list,
                         Tail(values))

\* for value in values: if value is not None and value not in list: list.append(value)
RECURSIVE AppendAllUniqueAny(_, _)
AppendAllUniqueAny(list, values) ==
    IF values = <<>> THEN list
    ELSE AppendAllUniqueAny(AppendUnique(list, Head(values)), Tail(values))

\* dict.get(key, default)
Get(d, key, default) == IF key \in DOMAIN d THEN d[key] ELSE default

IsNone(val) == "k" \in DOMAIN val /\ val.k = "none"

\* bool(value)
Truthy(val) ==
    CASE val.k = "str" -> val.v # <<>>
      [] val.k = "list" -> val.v # <<>>
      [] OTHER -> FALSE

IsList(val) == val.k = "list"

\* str.lower() on one character
LowerChar(c) ==
    CASE c = "A" -> "a"
      [] c = "J" -> "j"
      [] c = "K" -> "k"
      [] c = "E" -> "e"
      [] c = "N" -> "n"
      [] OTHER -> c

Lower(s) == [i \in 1..Len(s) |-> LowerChar(s[i])]

IsSpace(c) == c = " "

RECURSIVE LStrip(_)
LStrip(s) == IF s # <<>> /\ IsSpace(Head(s)) THEN LStrip(Tail(s)) ELSE s

RECURSIVE RStrip(_)
RStrip(s) ==
    IF s # <<>> /\ IsSpace(s[Len(s)]) THEN RStrip(SubSeq(s, 1, Len(s) - 1)) ELSE s

\* str.strip()
Strip(s) == RStrip(LStrip(s))

RECURSIVE ReprItems(_)
ReprItems(l) ==
    IF l = <<>> THEN <<>>
    ELSE <<"'">> \o Head(l) \o <<"'">>
         \o (IF Len(l) > 1 THEN <<",", " ">> ELSE <<>>) \o ReprItems(Tail(l))

\* str(value)
PyStr(val) ==
    CASE val.k = "str" -> val.v
      [] val.k = "list" -> <<"[">> \o ReprItems(val.v) \o <<"]">>
      [] OTHER -> <<"N", "o", "n", "e">>

\* _normalize_string
NormalizeString(s) == IF s # <<>> THEN Strip(Lower(s)) ELSE <<>>

-----------------------------------------------------------------------------
(* Matcher                                                                 *)

\* entity_config.get_systematic_merge_rules
GetSystematicMergeRules(entity_type) ==
    IF entity_type \in DOMAIN rules THEN rules[entity_type] ELSE <<>>

RulePriority(rule) == Get(rule, "priority", 999)

RECURSIVE InsertByPriority(_, _)
InsertByPriority(sorted, rule) ==
    IF sorted = <<>> THEN <<rule>>
    ELSE IF RulePriority(Head(sorted)) <= RulePriority(rule)
         THEN <<Head(sorted)>> \o InsertByPriority(Tail(sorted), rule)
         ELSE <<rule>> \o sorted

\* sorted(matching_rules, key=lambda x: x.get("priority", 999)): a stable sort
RECURSIVE SortedRules(_)
SortedRules(rs) ==
    IF rs = <<>> THEN <<>>
    ELSE InsertByPriority(SortedRules(SubSeq(rs, 1, Len(rs) - 1)), rs[Len(rs)])

NoMatch == [matches |-> FALSE, confidence |-> 0, reason |-> "no_match"]

Hit(confidence, reason) ==
    [matches |-> TRUE, confidence |-> confidence, reason |-> reason]

\* [self._normalize_string(str(v)) for v in list]
NormalizedList(l) == [i \in 1..Len(l) |-> NormalizeString(PyStr(Str(l[i])))]

\* attrs.get(db_field, []) if isinstance(attrs.get(db_field), list) else []
ListField(attrs, db_field) ==
    IF db_field \in DOMAIN attrs /\ IsList(attrs[db_field]) THEN attrs[db_field].v ELSE <<>>

\* the `exact` branch of _entities_match
ExactRule(rule, attrs1, attrs2) ==
    LET match_field == Get(rule, "match", "")
        value1 == NormalizeString(PyStr(Get(attrs1, match_field, Str(<<>>))))
        value2 == NormalizeString(PyStr(Get(attrs2, match_field, Str(<<>>))))
    IN  IF value1 # <<>> /\ value2 # <<>> /\ value1 = value2
        THEN Hit(Get(rule, "confidence", 50), "exact_" \o match_field)
        ELSE NoMatch

SearchRuleOneWay(rule, attrs1, attrs2) ==
    LET match_field == Get(rule, "match", "")
        db_field == Get(rule, "db", match_field)
        search_value1 == NormalizeString(PyStr(Get(attrs1, match_field, Str(<<>>))))
        normalized_list2 == NormalizedList(ListField(attrs2, db_field))
    IN  IF Get(rule, "type", "string") = "list"
           /\ search_value1 # <<>> /\ search_value1 \in Range(normalized_list2)
        THEN Hit(Get(rule, "confidence", 50), "search_" \o match_field \o "_in_" \o db_field)
        ELSE NoMatch

\* the `search` branch of _entities_match
SearchRule(rule, attrs1, attrs2) ==
    LET match_field == Get(rule, "match", "")
        db_field == Get(rule, "db", match_field)
        confidence == Get(rule, "confidence", 50)
        search_value1 == NormalizeString(PyStr(Get(attrs1, match_field, Str(<<>>))))
        search_value2 == NormalizeString(PyStr(Get(attrs2, match_field, Str(<<>>))))
        list1 == ListField(attrs1, db_field)
        list2 == ListField(attrs2, db_field)
        normalized_list1 == NormalizedList(list1)
        normalized_list2 == NormalizedList(list2)
        found == "search_" \o match_field \o "_in_" \o db_field
    IN  IF Get(rule, "type", "string") # "list" THEN NoMatch
        ELSE IF match_field = "email" /\ db_field = "emails"
                /\ \/ search_value1 # <<>> /\ search_value1 \in Range(normalized_list2)
                   \/ search_value2 # <<>> /\ search_value2 \in Range(normalized_list1)
        THEN Hit(confidence, found)
        ELSE IF \/ search_value1 # <<>> /\ search_value1 \in Range(normalized_list2)
                \/ search_value2 # <<>> /\ search_value2 \in Range(normalized_list1)
        THEN Hit(confidence, found)
        ELSE IF normalized_list1 # <<>> /\ normalized_list2 # <<>>
                /\ Range(normalized_list1) \cap Range(normalized_list2) # {}
        THEN Hit(confidence, "overlap_" \o db_field)
        ELSE NoMatch

\* one iteration of the rule loop of _entities_match
ApplyRule(rule, attrs1, attrs2) ==
    LET rule_type == Get(rule, "rule", "")
    IN  IF rule_type = "exact" THEN ExactRule(rule, attrs1, attrs2)
        ELSE IF rule_type = "search" THEN SearchRule(rule, attrs1, attrs2)
        ELSE NoMatch

\* the loop goes through every rule and returns what the last firing rule gave
RECURSIVE LastFiringRule(_, _, _)
LastFiringRule(rs, attrs1, attrs2) ==
    IF rs = <<>> THEN NoMatch
    ELSE LET later == LastFiringRule(Tail(rs), attrs1, attrs2)
         IN  IF later.matches THEN later ELSE ApplyRule(Head(rs), attrs1, attrs2)

\* the loop over the sorted rules: returns at the first rule that fires
RECURSIVE FirstFiringRule(_, _, _)
FirstFiringRule(rs, attrs1, attrs2) ==
    IF rs = <<>> THEN NoMatch
    ELSE LET return(r) == IF r.matches THEN r
                          ELSE FirstFiringRule(Tail(rs), attrs1, attrs2)
         IN  return(ApplyRule(Head(rs), attrs1, attrs2))

\* the names are compared as they are written
BasicNameMatchAsWritten(item1, item2) ==
    LET name1 == Get(item1.attributes, "name", Str(<<>>)).v
        name2 == Get(item2.attributes, "name", Str(<<>>)).v
    IN  IF name1 # <<>> /\ name2 # <<>> /\ name1 = name2
        THEN Hit(70, "basic_name_match")
        ELSE NoMatch

\* _basic_name_match
BasicNameMatch(item1, item2) ==
    LET name1 == NormalizeString(Get(item1.attributes, "name", Str(<<>>)).v)
        name2 == NormalizeString(Get(item2.attributes, "name", Str(<<>>)).v)
    IN  IF name1 # <<>> /\ name2 # <<>> /\ name1 = name2
        THEN Hit(70, "basic_name_match")
        ELSE NoMatch

\* _entities_match
EntitiesMatch(item1, item2) ==
    IF item1.entity_type # item2.entity_type
    THEN [matches |-> FALSE, confidence |-> 0, reason |-> "different_types"]
    ELSE LET matching_rules == GetSystematicMergeRules(item1.entity_type)
         IN  IF matching_rules = <<>> THEN BasicNameMatch(item1, item2)
             ELSE FirstFiringRule(SortedRules(matching_rules),
                                  item1.attributes, item2.attributes)

-----------------------------------------------------------------------------
(* Grouper                                                                 *)

\* Step 1 without the test 'if entity_type and entity_name'
EntityItemsFromUnchecked(entities_batch, i) ==
    [k \in 1..(Len(entities_batch) + 1 - i) |->
        [batch_id |-> i + k - 2,
         entity_type |-> entities_batch[i + k - 1].entity_type,
         entity_name |-> entities_batch[i + k - 1].entity_name,
         attributes |-> entities_batch[i + k - 1].attributes]]

\* Step 1 of process_entities_systematic: an EntityItem per record that has
\* both a type and a name; batch_id is the position in the input batch.
RECURSIVE EntityItemsFrom(_, _)
EntityItemsFrom(entities_batch, i) ==
    IF i > Len(entities_batch) THEN <<>>
    ELSE LET entity_data == entities_batch[i]
             rest == EntityItemsFrom(entities_batch, i + 1)
         IN  IF entity_data.entity_type # "" /\ entity_data.entity_name # <<>>
             THEN <<[batch_id |-> i - 1,
                     entity_type |-> entity_data.entity_type,
                     entity_name |-> entity_data.entity_name,
                     attributes |-> entity_data.attributes]>> \o rest
             ELSE rest

EntityItems(entities_batch) == EntityItemsFrom(entities_batch, 1)

NewGroup(group_id, entity_type, items) ==
    [group_id |-> group_id, entity_type |-> entity_type, items |-> items,
     primary_entity_id |-> None, primary_entity_data |-> None]

\* the inner `for j` loop of step 2: the later unprocessed items of the same
\* type that match item i, in order
RECURSIVE MatchingLater(_, _, _, _)
MatchingLater(entity_items, i, j, processed_items) ==
    IF j > Len(entity_items) THEN <<>>
    ELSE LET rest == MatchingLater(entity_items, i, j + 1, processed_items)
         IN  IF j <= i \/ j \in processed_items
                \/ entity_items[i].entity_type # entity_items[j].entity_type
             THEN rest
             ELSE IF EntitiesMatch(entity_items[i], entity_items[j]).matches
                  THEN <<j>> \o rest
                  ELSE rest

\* Step 2 of process_entities_systematic: the outer `for i` loop.  The result
\* is the list of groups in creation order.
RECURSIVE InitialGroups(_, _, _)
InitialGroups(entity_items, i, processed_items) ==
    IF i > Len(entity_items) THEN <<>>
    ELSE IF i \in processed_items
         THEN InitialGroups(entity_items, i + 1, processed_items)
         ELSE LET group(js) ==
                         NewGroup(<<"group", entity_items[i].entity_type, i - 1>>,
                                  entity_items[i].entity_type,
                                  <<entity_items[i]>>
                                    \o [k \in 1..Len(js) |-> entity_items[js[k]]])
                  groups_from(js) ==
                         <<group(js)>> \o InitialGroups(entity_items, i + 1,
                                                        processed_items \cup {i} \cup Range(js))
              IN  groups_from(MatchingLater(entity_items, i, 1, processed_items \cup {i}))

\* a bug: only the first item of each group is compared
ShouldMergeFirstOnly(gs, to_merge, j) ==
    \E m \in 1..Len(to_merge) :
        EntitiesMatch(gs[to_merge[m]].items[1], gs[j].items[1]).matches

\* "any items in group2 match any items in our merged groups"
ShouldMerge(gs, to_merge, j) ==
    \E m \in 1..Len(to_merge) :
        \E a \in 1..Len(gs[to_merge[m]].items) :
            \E b \in 1..Len(gs[j].items) :
                EntitiesMatch(gs[to_merge[m]].items[a], gs[j].items[b]).matches

\* one pass of the `for j` loop inside `while changed`
RECURSIVE ClosurePass(_, _, _, _, _)
ClosurePass(gs, j, to_merge, processed, changed) ==
    IF j > Len(gs) THEN [to_merge |-> to_merge, changed |-> changed]
    ELSE IF j \in Range(to_merge) \/ j \in processed
         THEN ClosurePass(gs, j + 1, to_merge, processed, changed)
         ELSE IF ShouldMerge(gs, to_merge, j)
              THEN ClosurePass(gs, j + 1, Append(to_merge, j), processed, TRUE)
              ELSE ClosurePass(gs, j + 1, to_merge, processed, changed)

\* the `while changed` loop
RECURSIVE ClosureWhile(_, _, _)
ClosureWhile(gs, to_merge, processed) ==
    LET again(r) == IF r.changed THEN ClosureWhile(gs, r.to_merge, processed) ELSE r.to_merge
    IN  again(ClosurePass(gs, 1, to_merge, processed, FALSE))

RECURSIVE ConcatItems(_, _)
ConcatItems(gs, idxs) ==
    IF idxs = <<>> THEN <<>> ELSE gs[Head(idxs)].items \o ConcatItems(gs, Tail(idxs))

\* the outer `for i` loop of _apply_transitive_closure_systematic
RECURSIVE ClosureFrom(_, _, _)
ClosureFrom(gs, i, processed) ==
    IF i > Len(gs) THEN <<>>
    ELSE IF i \in processed THEN ClosureFrom(gs, i + 1, processed)
         ELSE LET out(to_merge) ==
                         IF Len(to_merge) > 1
                         THEN NewGroup(<<"merged", gs[1].entity_type, i - 1>>,
                                       gs[i].entity_type, ConcatItems(gs, to_merge))
                         ELSE gs[i]
                  merged_from(to_merge) ==
                         <<out(to_merge)>>
                         \o ClosureFrom(gs, i + 1, processed \cup Range(to_merge))
              IN  merged_from(ClosureWhile(gs, <<i>>, processed))

\* a bug: the overlapping groups are left as step 2 made them
NoTransitiveClosure(gs) == gs

\* _apply_transitive_closure_systematic
ApplyTransitiveClosureSystematic(gs) ==
    IF Len(gs) <= 1 THEN gs ELSE ClosureFrom(gs, 1, {})

\* keys of entity_groups_by_type in insertion order
RECURSIVE TypeOrder(_, _)
TypeOrder(gs, seen) ==
    IF gs = <<>> THEN <<>>
    ELSE IF Head(gs).entity_type \in seen THEN TypeOrder(Tail(gs), seen)
         ELSE <<Head(gs).entity_type>>
              \o TypeOrder(Tail(gs), seen \cup {Head(gs).entity_type})

OfType(gs, entity_type) == SelectSeq(gs, LAMBDA g : g.entity_type = entity_type)

RECURSIVE ClosureByType(_, _)
ClosureByType(gs, types) ==
    IF types = <<>> THEN <<>>
    ELSE ApplyTransitiveClosureSystematic(OfType(gs, Head(types)))
         \o ClosureByType(gs, Tail(types))

\* Steps 1-3 of process_entities_systematic: the groups of every type, in the
\* order in which merge_groups_to_database walks entity_groups_by_type
GroupEntities(entities_batch) ==
    LET by_type(initial) == ClosureByType(initial, TypeOrder(initial, {}))
    IN  by_type(InitialGroups(EntityItems(entities_batch), 1, {}))


-----------------------------------------------------------------------------
(* Configuration instance: the live schema (schema.yaml) and the field     *)
(* mappings (entity_config.yaml) of the two entity types of the model.     *)
(* Person has a scalar worksAt and the array fields the handler names;     *)
(* Team has no sources field.                                              *)

EntityTypes == {"Person", "Team"}

\* KuzuDBHandler.entity_schemas: entity type -> field -> declared type
EntitySchemas(entity_type) ==
    CASE entity_type = "Person" ->
            [name |-> "STRING", worksAt |-> "STRING", emails |-> "STRING[]",
             aliases |-> "STRING[]", rawDescriptions |-> "STRING[]",
             sources |-> "STRING[]", cleanDescription |-> "STRING",
             embedding |-> "DOUBLE[]"]
      [] entity_type = "Team" ->
            [name |-> "STRING", aliases |-> "STRING[]", rawDescriptions |-> "STRING[]",
             embedding |-> "DOUBLE[]"]
      [] OTHER -> << >>

\* field_type_def.endswith('[]')
EndsWithBrackets(type_def) == type_def \in {"STRING[]", "DOUBLE[]"}

-----------------------------------------------------------------------------
(* Reconciler                                                              *)

\* MATCH (e:T) WHERE toLower(e.f) = toLower($value) RETURN e
ExactQuery(entity_type, db_field, value) ==
    {n \in store : /\ n["type"] = entity_type
                   /\ db_field \in DOMAIN n
                   /\ n[db_field].k = "str"
                   /\ Lower(n[db_field].v) = Lower(value)}

\* MATCH (e:T) WHERE ANY(x IN e.f WHERE toLower(x) = toLower('value')) RETURN e
ArrayQuery(entity_type, db_field, value) ==
    {n \in store : /\ n["type"] = entity_type
                   /\ db_field \in DOMAIN n
                   /\ n[db_field].k = "list"
                   /\ \E i \in 1..Len(n[db_field].v) :
                          Lower(n[db_field].v[i]) = Lower(value)}

\* attributes.get(match_field, '').strip()
StrippedAttr(attributes, match_field) ==
    Strip(Get(attributes, match_field, Str(<<>>)).v)

\* one iteration of the rule loop of _find_existing_entity_systematic: the
\* rows its query returns ({} when the rule is skipped or issues no query)
RuleQueryRows(rule, entity_type, attributes) ==
    LET rule_type == Get(rule, "rule", "")
        match_field == Get(rule, "match", "")
        db_field == Get(rule, "db", match_field)
        field_type == Get(rule, "type", "string")
        entity_schema == EntitySchemas(entity_type)
        value == StrippedAttr(attributes, match_field)
    IN  IF db_field \notin DOMAIN entity_schema THEN {}
        ELSE IF rule_type = "exact"
        THEN IF value = <<>> THEN {}
             ELSE IF entity_type = "Person" /\ match_field = "email" /\ db_field = "emails"
                  THEN ArrayQuery(entity_type, "emails", value)
                  ELSE ExactQuery(entity_type, db_field, value)
        ELSE IF rule_type = "search" /\ field_type = "list"
        THEN IF ~EndsWithBrackets(entity_schema[db_field]) THEN {}
             ELSE IF value = <<>> THEN {}
             ELSE ArrayQuery(entity_type, db_field, value)
        ELSE {}

\* the iteration of the rule loop reaches execute_cypher
RuleIssuesQuery(rule, entity_type, attributes) ==
    LET rule_type == Get(rule, "rule", "")
        match_field == Get(rule, "match", "")
        db_field == Get(rule, "db", match_field)
        field_type == Get(rule, "type", "string")
        entity_schema == EntitySchemas(entity_type)
    IN  /\ db_field \in DOMAIN entity_schema
        /\ \/ rule_type = "exact"
           \/ /\ rule_type = "search" /\ field_type = "list"
              /\ EndsWithBrackets(entity_schema[db_field])
        /\ StrippedAttr(attributes, match_field) # <<>>

\* the outcome of a call that raised
Raised == [k |-> "raised"]

\* attributes.get(match_field, '').strip() raises AttributeError: the value
\* is not a str (a list parsed from a bracketed value, or None)
StripRaises(attributes, match_field) ==
    Get(attributes, match_field, Str(<<>>)).k # "str"

\* the iteration of the rule loop reaches one of the two .strip() calls,
\* which are outside the try blocks, and the call raises
RuleRaises(rule, entity_type, attributes) ==
    LET rule_type == Get(rule, "rule", "")
        match_field == Get(rule, "match", "")
        db_field == Get(rule, "db", match_field)
        field_type == Get(rule, "type", "string")
        entity_schema == EntitySchemas(entity_type)
    IN  /\ db_field \in DOMAIN entity_schema
        /\ \/ rule_type = "exact"
           \/ /\ rule_type = "search" /\ field_type = "list"
              /\ EndsWithBrackets(entity_schema[db_field])
        /\ StripRaises(attributes, match_field)

\* the rule loop ends at a rule whose storage field is not in the schema
\* (return in the place of continue)
RECURSIVE FirstRowsStopAtSkipped(_, _, _)
FirstRowsStopAtSkipped(rs, entity_type, attributes) ==
    IF rs = <<>> THEN {None}
    ELSE IF Get(Head(rs), "db", Get(Head(rs), "match", ""))
               \notin DOMAIN EntitySchemas(entity_type)
    THEN {None}
    ELSE IF RuleRaises(Head(rs), entity_type, attributes) THEN {Raised}
    ELSE LET rows == RuleQueryRows(Head(rs), entity_type, attributes)
         IN  IF rows # {} THEN rows
             ELSE FirstRowsStopAtSkipped(Tail(rs), entity_type, attributes)

RECURSIVE FirstRows(_, _, _)
FirstRows(rs, entity_type, attributes) ==
    IF rs = <<>> THEN {None}
    ELSE IF RuleRaises(Head(rs), entity_type, attributes) THEN {Raised}
    ELSE LET rows == RuleQueryRows(Head(rs), entity_type, attributes)
         IN  IF rows # {} THEN rows ELSE FirstRows(Tail(rs), entity_type, attributes)

\* _find_existing_entity_systematic: the entities it can return (data[0] is
\* any row of the first query that returns rows), {None} when it returns None
FindExistingEntitySystematic(entity_type, attributes) ==
    LET matching_rules == GetSystematicMergeRules(entity_type)
    IN  IF matching_rules = <<>> THEN {None}
        ELSE FirstRows(SortedRules(matching_rules), entity_type, attributes)

\* _match_groups_with_database, for one group and the entity found for it
MatchGroupWithDatabase(group, existing_entity) ==
    IF IsNone(existing_entity) THEN group
    ELSE [group EXCEPT !.primary_entity_id = existing_entity["name"],
                       !.primary_entity_data = existing_entity]

-----------------------------------------------------------------------------
(* Inputs of the grouping specification                                    *)

\* parse_entity_record: attributes = {"name": entity_name, ...}
EntityData(entity_type, entity_name, extra) ==
    [entity_type |-> entity_type, entity_name |-> entity_name,
     attributes |-> Merge(Dict1("name", Str(entity_name)), extra)]

GroupingNames == << <<"j">>, <<"k">> >>

GroupingExtras ==
    << << >>,
       Dict1("email", Str(<<"E", " ">>)),
       Dict1("emails", Lst(<< <<"e">> >>)) >>

\* the records a batch of the grouping specification is drawn from: Person
\* records with and without an email or an emails list, Team records, and a
\* record without a name
\* record without a name, and a record without a type
GroupingRecords ==
    [i \in 1..6 |-> EntityData("Person", GroupingNames[((i - 1) \div 3) + 1],
                               GroupingExtras[((i - 1) % 3) + 1])]
    \o << EntityData("Team", <<"j">>, << >>),
          EntityData("Team", <<"J">>, << >>),
          EntityData("Person", <<>>, << >>),
          EntityData("", <<"n">>, << >>) >>

RecordIndex(r) == CHOOSE k \in 1..Len(GroupingRecords) : GroupingRecords[k] = r

ExactNameRule(p) ==
    [rule |-> "exact", match |-> "name", db |-> "name", type |-> "string",
     confidence |-> 95, priority |-> p]

SearchEmailRule(p) ==
    [rule |-> "search", match |-> "email", db |-> "emails", type |-> "list",
     confidence |-> 90, priority |-> p]

\* a rule without priority and without db
ExactEmailRule == [rule |-> "exact", match |-> "email", confidence |-> 85]

PersonRuleLists ==
    { <<>>,
      <<SearchEmailRule(1)>>,
      <<ExactNameRule(1), SearchEmailRule(2)>>,
      <<ExactNameRule(2), SearchEmailRule(1)>>,
      <<ExactEmailRule, ExactNameRule(1)>> }

RuleConfigs == {Dict1("Person", rl) : rl \in PersonRuleLists}

-----------------------------------------------------------------------------
(* Grouping specification: a batch is received record by record and then   *)
(* grouped by process_entities_systematic against the store.               *)

GInit ==
    /\ rules \in RuleConfigs
    /\ pc = "input"
    /\ batch = <<>>
    /\ groups = <<>>
    /\ store = {}
    /\ source_item_id = <<>>
    /\ relations_list = <<>>
    /\ gi = 1
    /\ ri = 1
    /\ entity_mapping = << >>
    /\ calls = <<>>
    /\ rcalls = <<>>
    /\ relStore = <<>>
    /\ prev = [batch |-> <<>>, source_item_id |-> <<>>, store |-> {}, relStore |-> <<>>,
               calls |-> <<>>]
    /\ nbatches = 0
    /\ failures = 0
    /\ CypherIdle
    /\ workers = << >>
    /\ closure = ClosureIdle

\* The records of a batch arrive in the order of GroupingRecords; the
\* properties of the grouping quantify over every order of the batch.
ReceiveEntity(r) ==
    /\ pc = "input"
    /\ Len(batch) < MaxBatch
    /\ batch # <<>> => RecordIndex(batch[Len(batch)]) <= RecordIndex(r)
    /\ batch' = Append(batch, r)
    /\ UNCHANGED <<rules, pc, groups, store>>
    /\ UNCHANGED mvars

\* process_entities_systematic: steps 1-3, then step 4 for every group
ProcessEntitiesSystematic ==
    /\ pc = "input"
    /\ \E gs \in {GroupEntities(batch)} :
          \E found \in [1..Len(gs) -> store \cup {None}] :
             /\ \A i \in 1..Len(gs) :
                   found[i] \in FindExistingEntitySystematic(
                                    gs[i].entity_type, gs[i].items[1].attributes)
             /\ groups' = [i \in 1..Len(gs) |-> MatchGroupWithDatabase(gs[i], found[i])]
    /\ pc' = "grouped"
    /\ UNCHANGED <<rules, batch, store>>
    /\ UNCHANGED mvars

\* process_entities_systematic when step 4 raises: _match_groups_with_database
\* has no try around _find_existing_entity_systematic, so the error of one
\* group leaves process_entities_systematic, and the except clause of
\* process_batch_systematic hands the whole batch to process_batch
ProcessEntitiesRaises ==
    /\ pc = "input"
    /\ \E gs \in {GroupEntities(batch)} :
          \E i \in 1..Len(gs) :
             Raised \in FindExistingEntitySystematic(gs[i].entity_type,
                                                     gs[i].items[1].attributes)
    /\ pc' = "legacy"
    /\ UNCHANGED <<rules, batch, groups, store>>
    /\ UNCHANGED mvars



-----------------------------------------------------------------------------
(* Properties of the Matcher and the Grouper                               *)

ValidIdx(b) == {i \in 1..Len(b) : b[i].entity_type # "" /\ b[i].entity_name # <<>>}

ItemOf(b, i) ==
    [batch_id |-> i - 1, entity_type |-> b[i].entity_type,
     entity_name |-> b[i].entity_name, attributes |-> b[i].attributes]

Matches(b, i, j) == EntitiesMatch(ItemOf(b, i), ItemOf(b, j)).matches

\* the records reachable from the set S of records by chains of match hits
RECURSIVE ReachFrom(_, _)
ReachFrom(b, S) ==
    LET T == S \cup {j \in ValidIdx(b) : \E i \in S : Matches(b, i, j) \/ Matches(b, j, i)}
    IN  IF T = S THEN S ELSE ReachFrom(b, T)

Linked(b, i, j) == j \in ReachFrom(b, {i})

\* the positions in the batch of the records of a group
GroupIdx(g) == {g.items[k].batch_id + 1 : k \in 1..Len(g.items)}

PartitionOf(gs) == {GroupIdx(gs[i]) : i \in 1..Len(gs)}

Orders(n) == {p \in [1..n -> 1..n] : \A i, j \in 1..n : p[i] = p[j] => i = j}

\* the batch in another order: position i holds the record that was at p[i]
Permuted(b, p) == [i \in 1..Len(b) |-> b[p[i]]]

ComponentsOf(b, gs) ==
    \A i, j \in ValidIdx(b) :
        b[i].entity_type = b[j].entity_type =>
            ((\E g \in 1..Len(gs) : {i, j} \subseteq GroupIdx(gs[g])) <=> Linked(b, i, j))

\* C1: two valid records of one type are in the same group exactly when a
\* chain of pairwise match hits links them (the groups are the connected
\* components of the match relation), in every input order of the batch.
C1_ConnectedComponents ==
    pc = "grouped" =>
        /\ ComponentsOf(batch, groups)
        /\ \A p \in Orders(Len(batch)) :
              ComponentsOf(Permuted(batch, p), GroupEntities(Permuted(batch, p)))

\* a chain a-b-c whose ends do not match, grouped as one
C1_Witness ==
    /\ pc = "grouped"
    /\ \E g \in 1..Len(groups) : \E a, b, c \in GroupIdx(groups[g]) :
          /\ Matches(batch, a, b) /\ Matches(batch, b, c)
          /\ ~Matches(batch, a, c) /\ ~Matches(batch, c, a)

\* C5: the match decision does not depend on the order of the two records.
C5_MatchSymmetric ==
    \A i, j \in ValidIdx(batch) :
        batch[i].entity_type = batch[j].entity_type =>
            Matches(batch, i, j) = Matches(batch, j, i)

\* a search rule fired between a record that has only the scalar and a record
\* that has only the list
C5_Witness ==
    /\ pc = "grouped"
    /\ \E i, j \in ValidIdx(batch) :
          /\ EntitiesMatch(ItemOf(batch, i), ItemOf(batch, j)).reason
                = "search_email_in_emails"
          /\ "emails" \notin DOMAIN batch[i].attributes
          /\ "email" \notin DOMAIN batch[j].attributes

\* C6: every permutation of the batch is grouped into the same partition of
\* its records.
C6_OrderIndependent ==
    pc = "grouped" =>
        \A p \in Orders(Len(batch)) :
            {{p[k] : k \in G} : G \in PartitionOf(GroupEntities(Permuted(batch, p)))}
                = PartitionOf(groups)

\* step 3 had to merge groups that step 2 had left apart
C6_Witness ==
    /\ pc = "grouped"
    /\ Len(batch) = MaxBatch
    /\ Len(InitialGroups(EntityItems(batch), 1, {})) > Len(groups)


-----------------------------------------------------------------------------
(* AttributeMerger: field mapping                                          *)

\* entity_config.get_db_fields: the mappings of an entity type
GetDbFields(entity_type) ==
    CASE entity_type = "Person" ->
            [name |-> [type |-> "STRING"],
             worksAt |-> [type |-> "STRING", merge_strategy |-> "preserve_existing"],
             emails |-> [type |-> "STRING[]", mapping |-> "email"],
             aliases |-> [type |-> "STRING[]"],
             rawDescriptions |-> [type |-> "STRING[]", mapping |-> "description"],
             sources |-> [type |-> "STRING[]"],
             cleanDescription |-> [type |-> "STRING", merge_strategy |-> "agent_only"]]
      [] entity_type = "Team" ->
            [name |-> [type |-> "STRING"],
             aliases |-> [type |-> "STRING[]"],
             rawDescriptions |-> [type |-> "STRING[]", mapping |-> "description"]]
      [] OTHER -> << >>

\* the order in which a dict of fields is walked
FieldOrder ==
    <<"name", "email", "worksAt", "emails", "aliases", "rawDescriptions", "sources",
      "description", "cleanDescription", "embedding">>

InOrder(S) == SelectSeq(FieldOrder, LAMBDA f : f \in S)

\* entity_config.get_target_field
GetTargetField(entity_type, llm_field) ==
    LET mappings == GetDbFields(entity_type)
        hits == {f \in DOMAIN mappings : Get(mappings[f], "mapping", "") = llm_field}
    IN  IF hits # {} THEN Head(InOrder(hits)) ELSE llm_field

\* entity_config.transform_value
TransformValue(llm_field, value) ==
    IF llm_field = "description"
    THEN IF IsList(value) THEN value
         ELSE IF Truthy(value) THEN Lst(<<value.v>>) ELSE Lst(<<>>)
    ELSE value

\* entity_config.get_entity_array_fields
GetEntityArrayFields(entity_type) ==
    LET mappings == GetDbFields(entity_type)
    IN  InOrder({f \in DOMAIN mappings : EndsWithBrackets(Get(mappings[f], "type", ""))})

\* entity_config.get_systematic_merge_fields: the defaults
StringFields == <<"name", "email", "worksAt", "industry", "domain", "url">>
ConfigArrayFields == <<"rawDescriptions", "sources", "aliases", "role", "permissions">>

\* the loop of _transform_attributes_for_database over llm_attributes.items()
RECURSIVE TransformFrom(_, _, _, _)
TransformFrom(entity_type, llm_attributes, fields, transformed) ==
    IF fields = <<>> THEN transformed
    ELSE LET llm_field == Head(fields)
             value == llm_attributes[llm_field]
             db_fields == GetDbFields(entity_type)
             target_field == GetTargetField(entity_type, llm_field)
             transformed_value == TransformValue(llm_field, value)
             as_list == IF IsList(transformed_value) THEN transformed_value
                        ELSE IF Truthy(transformed_value)
                             THEN Lst(<<transformed_value.v>>) ELSE Lst(<<>>)
             next ==
                IF IsNone(value) THEN transformed
                ELSE IF target_field \in DOMAIN db_fields
                THEN IF EndsWithBrackets(Get(db_fields[target_field], "type", "STRING"))
                     THEN IF target_field \in DOMAIN transformed
                          THEN Put(transformed, target_field,
                                   Lst(transformed[target_field].v \o as_list.v))
                          ELSE Put(transformed, target_field, as_list)
                     ELSE Put(transformed, target_field, transformed_value)
                ELSE Put(transformed, llm_field, value)
         IN  TransformFrom(entity_type, llm_attributes, Tail(fields), next)

\* _transform_attributes_for_database
TransformAttributesForDatabase(entity_type, llm_attributes) ==
    IF GetDbFields(entity_type) = << >> THEN llm_attributes
    ELSE TransformFrom(entity_type, llm_attributes, InOrder(DOMAIN llm_attributes), << >>)

-----------------------------------------------------------------------------
(* AttributeMerger: merging the items of a group                           *)

\* "Handle string fields - keep first non-empty value, add others to aliases"
MergeStringField(entity_type, merged, attrs, field) ==
    IF field \in DOMAIN attrs /\ Truthy(attrs[field])
    THEN IF ~(field \in DOMAIN merged /\ Truthy(merged[field]))
         THEN Put(merged, field, attrs[field])
         ELSE IF attrs[field] # merged[field] /\ "aliases" \in DOMAIN EntitySchemas(entity_type)
              THEN LET m1 == IF "aliases" \notin DOMAIN merged
                             THEN Put(merged, "aliases", Lst(<<>>)) ELSE merged
                   IN  Put(m1, "aliases", Lst(AppendUnique(m1["aliases"].v, attrs[field].v)))
              ELSE merged
    ELSE merged

\* "Handle array fields - append unique values", for one field
MergeArrayField(merged, attrs, field) ==
    IF field \in DOMAIN attrs /\ Truthy(attrs[field])
    THEN LET m1 == IF field \notin DOMAIN merged THEN Put(merged, field, Lst(<<>>)) ELSE merged
         IN  IF IsList(attrs[field])
             THEN Put(m1, field, Lst(AppendAllUnique(m1[field].v, attrs[field].v)))
             ELSE Put(m1, field, Lst(AppendUnique(m1[field].v, attrs[field].v)))
    ELSE merged

RECURSIVE MergeArrayFields(_, _, _)
MergeArrayFields(merged, attrs, fields) ==
    IF fields = <<>> THEN merged
    ELSE MergeArrayFields(MergeArrayField(merged, attrs, Head(fields)), attrs, Tail(fields))

\* "Add descriptions using field mapping"
MergeDescription(entity_type, merged, attrs) ==
    IF "description" \in DOMAIN attrs /\ Truthy(attrs["description"])
    THEN LET target_field == GetTargetField(entity_type, "description")
             m1 == IF target_field \notin DOMAIN merged
                   THEN Put(merged, target_field, Lst(<<>>)) ELSE merged
             desc == attrs["description"]
         IN  IF IsList(desc)
             THEN Put(m1, target_field, Lst(AppendAllUnique(m1[target_field].v, desc.v)))
             ELSE Put(m1, target_field, Lst(AppendUnique(m1[target_field].v, desc.v)))
    ELSE merged

\* "Add source tracking"
AddSource(merged, array_fields, source_id) ==
    IF "sources" \in Range(array_fields)
       /\ source_id \notin Range(Get(merged, "sources", Lst(<<>>)).v)
    THEN Put(merged, "sources", Lst(Append(Get(merged, "sources", Lst(<<>>)).v, source_id)))
    ELSE merged

ValidFields(fields, entity_type) ==
    SelectSeq(fields, LAMBDA f : f \in DOMAIN EntitySchemas(entity_type))


-----------------------------------------------------------------------------
(* KuzuDBHandler: the node table.  A node is a dict of its properties; the  *)
(* primary key of the table Nodes is name.  ok is FALSE when execute_cypher *)
(* raises (the handler then returns None and the table is unchanged).       *)

NodeNamed(st, entity_id) == {n \in st : n["name"].v = entity_id}

\* isinstance(value, list) else [value]
AsList(val) == IF IsList(val) THEN val ELSE Lst(<<val.v>>)

HandlerArrayFields == {"role", "aliases", "location", "tags", "reviewers", "assignees",
                       "labels", "keywords", "relatedThreads", "emails"}

\* create_entity up to the query: the parameters of the MERGE
ValidatedProperties(entity_type, properties) ==
    LET schema == EntitySchemas(entity_type)
        v0 == Restrict(properties, DOMAIN schema)
        v1 == Put(v0, "type", entity_type)
        v2 == IF "rawDescriptions" \in DOMAIN v1
              THEN Put(v1, "rawDescriptions", AsList(v1["rawDescriptions"]))
              ELSE Put(v1, "rawDescriptions", Lst(<<>>))
        v3 == IF "sources" \in DOMAIN schema
              THEN IF "sources" \in DOMAIN v2
                   THEN Put(v2, "sources", AsList(v2["sources"]))
                   ELSE Put(v2, "sources", Lst(<<>>))
              ELSE v2
    IN  [f \in DOMAIN v3 |-> IF f \in HandlerArrayFields THEN AsList(v3[f]) ELSE v3[f]]

\* n.f = n.f + $f of the query (NULL + list is NULL)
ConcatProperty(n, params, f) ==
    IF f \in DOMAIN n THEN Dict1(f, Lst(n[f].v \o params[f].v)) ELSE << >>

\* MERGE (n:Nodes {name: $name}) ON CREATE SET ... ON MATCH SET ... RETURN n
MergeNode(st, entity_type, params) ==
    LET hit == NodeNamed(st, params["name"].v)
    IN  IF hit = {} THEN [store |-> st \cup {params}, result |-> params]
        ELSE LET n == CHOOSE x \in hit : TRUE
                 overwritten == Without(params, {"name", "rawDescriptions", "sources"})
                 appended ==
                     Merge(ConcatProperty(n, params, "rawDescriptions"),
                           IF "sources" \in DOMAIN EntitySchemas(entity_type)
                           THEN ConcatProperty(n, params, "sources") ELSE << >>)
                 n2 == Merge(Merge(n, overwritten), appended)
             IN  [store |-> (st \ {n}) \cup {n2}, result |-> n2]

\* create_entity
CreateEntity(st, entity_type, properties, ok) ==
    IF \/ entity_type \notin EntityTypes
       \/ "name" \notin DOMAIN properties
       \/ Restrict(properties, DOMAIN EntitySchemas(entity_type)) = << >>
       \/ ~ok
    THEN [store |-> st, result |-> None]
    ELSE MergeNode(st, entity_type, ValidatedProperties(entity_type, properties))

\* get_entity
GetEntity(st, entity_type, entity_id, ok) ==
    LET rows == {n \in NodeNamed(st, entity_id) : n["type"] = entity_type}
    IN  IF ok /\ rows # {} THEN CHOOSE n \in rows : TRUE ELSE None

\* the append_unique loop of update_entity for one field
MergedValues(current_entity, field_name, values_to_add) ==
    LET existing_values == Get(current_entity, field_name, Lst(<<>>))
        merged_values == IF IsList(existing_values) THEN existing_values.v
                         ELSE IF Truthy(existing_values) THEN <<existing_values.v>> ELSE <<>>
    IN  Lst(AppendAllUniqueAny(merged_values, values_to_add))

\* update_entity: the array fields of the updates, with their values as lists
ArrayFieldsToAppend(entity_type, updates) ==
    LET entity_schema == EntitySchemas(entity_type)
        is_array(key) == EndsWithBrackets(Get(entity_schema, key, ""))
    IN  [key \in {f \in DOMAIN updates : is_array(f)} |->
            IF IsList(updates[key]) THEN updates[key].v
            ELSE IF Truthy(updates[key]) THEN <<updates[key].v>> ELSE <<>>]

\* update_entity: the parameters of the SET, from the updates and the entity
\* that get_entity has returned (None when it was not called or has failed)
UpdateSetParams(entity_type, updates, current_entity) ==
    LET entity_schema == EntitySchemas(entity_type)
        is_array(key) == EndsWithBrackets(Get(entity_schema, key, ""))
        array_fields_to_append == ArrayFieldsToAppend(entity_type, updates)
        non_array_updates == Restrict(updates, {f \in DOMAIN updates : ~is_array(f)})
    IN  IF IsNone(current_entity) THEN non_array_updates
        ELSE Merge(non_array_updates,
                   [f \in DOMAIN array_fields_to_append |->
                       MergedValues(current_entity, f, array_fields_to_append[f])])

\* update_entity: MATCH (n:Nodes) WHERE n.type = ... AND n.name = ... SET ...
\* RETURN n; the store rejects a SET of a property the table does not have
SetEntity(st, entity_type, entity_id, set_params, okSet) ==
    LET rows == {n \in NodeNamed(st, entity_id) : n["type"] = entity_type}
    IN  IF ~okSet \/ rows = {}
           \/ ~(DOMAIN set_params \subseteq DOMAIN EntitySchemas(entity_type))
        THEN [store |-> st, result |-> None]
        ELSE LET n == CHOOSE x \in rows : TRUE
                 n2 == Merge(n, set_params)
             IN  [store |-> (st \ {n}) \cup {n2}, result |-> n2]

\* update_entity
UpdateEntity(st, entity_type, entity_id, updates, okGet, okSet) ==
    IF updates = << >>
    THEN [store |-> st, result |-> GetEntity(st, entity_type, entity_id, okSet)]
    ELSE SetEntity(st, entity_type, entity_id,
                   UpdateSetParams(
                       entity_type, updates,
                       IF ArrayFieldsToAppend(entity_type, updates) = << >> THEN None
                       ELSE GetEntity(st, entity_type, entity_id, okGet)),
                   okSet)


-----------------------------------------------------------------------------
(* SystematicMergeProvider: writing a group                                *)

\* the names are added without looking whether they are there
RECURSIVE AddEntityNamesUnchecked(_, _, _)
AddEntityNamesUnchecked(aliases, items, primary_entity_name) ==
    IF items = <<>> THEN aliases
    ELSE AddEntityNamesUnchecked(
            IF Head(items).entity_name # primary_entity_name
            THEN Append(aliases, Head(items).entity_name) ELSE aliases,
            Tail(items), primary_entity_name)

\* "Add all other entity names to aliases"
RECURSIVE AddEntityNames(_, _, _)
AddEntityNames(aliases, items, primary_entity_name) ==
    IF items = <<>> THEN aliases
    ELSE AddEntityNames(
            IF Head(items).entity_name # primary_entity_name
            THEN AppendUnique(aliases, Head(items).entity_name) ELSE aliases,
            Tail(items), primary_entity_name)

\* "Initialize array fields from configuration" of _create_entity_from_group
RECURSIVE InitArrayFields(_, _)
InitArrayFields(merged, fields) ==
    IF fields = <<>> THEN merged
    ELSE LET field == Head(fields)
             m1 == IF field \notin DOMAIN merged THEN Put(merged, field, Lst(<<>>))
                   ELSE IF ~IsList(merged[field])
                   THEN Put(merged, field,
                            IF Truthy(merged[field]) THEN Lst(<<merged[field].v>>)
                            ELSE Lst(<<>>))
                   ELSE merged
         IN  InitArrayFields(m1, Tail(fields))

RECURSIVE MergeStringFields(_, _, _, _)
MergeStringFields(entity_type, merged, attrs, fields) ==
    IF fields = <<>> THEN merged
    ELSE MergeStringFields(entity_type,
                           MergeStringField(entity_type, merged, attrs, Head(fields)),
                           attrs, Tail(fields))

\* "Merge attributes from all items" of _create_entity_from_group
RECURSIVE MergeItemsIntoNew(_, _, _)
MergeItemsIntoNew(entity_type, merged, items) ==
    IF items = <<>> THEN merged
    ELSE LET merge(attrs) ==
                LET m1 == MergeStringFields(entity_type, merged, attrs,
                                            ValidFields(StringFields, entity_type))
                    m2 == MergeArrayFields(m1, attrs, ConfigArrayFields)
                IN  MergeDescription(entity_type, m2, attrs)
         IN  MergeItemsIntoNew(
                 entity_type,
                 merge(TransformAttributesForDatabase(entity_type, Head(items).attributes)),
                 Tail(items))

\* _create_entity_from_group: the properties it hands to create_entity
CreateEntityFromGroup(group, source_id) ==
    LET base_item == group.items[1]
        primary_entity_name == base_item.entity_name
        m0 == TransformAttributesForDatabase(group.entity_type, base_item.attributes)
        named(m) == Put(m, "name", Str(primary_entity_name))
        listed(m) == IF "aliases" \notin DOMAIN m \/ ~IsList(m["aliases"])
                     THEN Put(m, "aliases", Lst(<<>>)) ELSE m
        aliased(m) ==
            Put(m, "aliases",
                Lst(AddEntityNames(m["aliases"].v, Tail(group.items), primary_entity_name)))
        array_fields == GetEntityArrayFields(group.entity_type)
        m4 == InitArrayFields(aliased(listed(named(m0))), array_fields)
        m5 == AddSource(m4, array_fields, source_id)
    IN  MergeItemsIntoNew(group.entity_type, m5, Tail(group.items))

\* the body of "for field in valid_string_fields" of _merge_group_into_existing:
\* the array fields and the description are handled inside that loop
RECURSIVE MergeFieldsIntoExisting(_, _, _, _)
MergeFieldsIntoExisting(entity_type, merged, attrs, fields) ==
    IF fields = <<>> THEN merged
    ELSE LET m1 == MergeStringField(entity_type, merged, attrs, Head(fields))
             m2 == MergeArrayFields(m1, attrs, ValidFields(ConfigArrayFields, entity_type))
             m3 == MergeDescription(entity_type, m2, attrs)
         IN  MergeFieldsIntoExisting(entity_type, m3, attrs, Tail(fields))

\* "Merge attributes from all items" of _merge_group_into_existing
RECURSIVE MergeItemsIntoExisting(_, _, _)
MergeItemsIntoExisting(entity_type, merged, items) ==
    IF items = <<>> THEN merged
    ELSE LET attrs == TransformAttributesForDatabase(entity_type, Head(items).attributes)
         IN  MergeItemsIntoExisting(
                 entity_type,
                 MergeFieldsIntoExisting(entity_type, merged, attrs,
                                         ValidFields(StringFields, entity_type)),
                 Tail(items))

\* _merge_group_into_existing: the updates it hands to update_entity
MergeGroupIntoExisting(group, source_id) ==
    LET primary_entity == group.primary_entity_data
        entity_schema == EntitySchemas(group.entity_type)
        array_fields == GetEntityArrayFields(group.entity_type)
        valid_array_fields ==
            SelectSeq(array_fields,
                      LAMBDA f : f \in DOMAIN entity_schema /\ EndsWithBrackets(entity_schema[f]))
        m0 == [f \in Range(valid_array_fields) |-> Get(primary_entity, f, Lst(<<>>))]
        m1 == AddSource(m0, array_fields, source_id)
        merged_attributes == MergeItemsIntoExisting(group.entity_type, m1, group.items)
    IN  Without(merged_attributes, {"name"})


\* the entries merge_groups_to_database adds to processed_entities for a group
\* whose entity was created under the name new_entity_id
CreatedMapping(group, new_entity_id) ==
    Merge(Dict1(new_entity_id, [entity_id |-> new_entity_id, entity_type |-> group.entity_type]),
          [n \in {group.items[k].entity_name : k \in 1..Len(group.items)} |->
              [entity_id |-> new_entity_id, entity_type |-> group.entity_type,
               is_alias |-> n # new_entity_id, primary_name |-> new_entity_id]])

\* ... for a group merged into the stored entity it was reconciled with
MergedMapping(group) ==
    LET primary_entity_name == group.primary_entity_data["name"].v
    IN  Merge(Dict1(primary_entity_name,
                    [entity_id |-> primary_entity_name, entity_type |-> group.entity_type]),
              [n \in {group.items[k].entity_name : k \in 1..Len(group.items)} |->
                  [entity_id |-> primary_entity_name, entity_type |-> group.entity_type,
                   is_merged |-> TRUE, is_alias |-> n # primary_entity_name,
                   primary_name |-> primary_entity_name]])

\* ... for a group whose merge returned None
FailedMergeMapping(group) ==
    LET primary_entity_name == group.primary_entity_data["name"].v
    IN  Merge(Dict1(primary_entity_name,
                    [entity_id |-> group.primary_entity_id.v,
                     entity_type |-> group.entity_type]),
              [n \in {group.items[k].entity_name : k \in 1..Len(group.items)} |->
                  [entity_id |-> group.primary_entity_id.v, entity_type |-> group.entity_type,
                   is_merged |-> TRUE, primary_entity_name |-> primary_entity_name]])

-----------------------------------------------------------------------------
(* SystematicMergeProvider: relations                                      *)

\* _generate_relation_id: the text that is hashed (the digest is taken to be
\* one-to-one on it)
GenerateRelationId(source_id, target_id, rel_type) ==
    source_id \o <<":", ":">> \o rel_type \o <<":", ":">> \o target_id

\* entity_mapping[name].get('primary_name', entity_mapping[name]['entity_id'])
CanonicalName(mapping, name) ==
    IF "primary_name" \in DOMAIN mapping[name]
    THEN mapping[name]["primary_name"] ELSE mapping[name]["entity_id"]

\* step 1 without the test of the canonical map: a relation whose endpoint is
\* not a key of the map is grouped under the name as written
RECURSIVE RelationGroupsKeepUnmapped(_, _, _)
RelationGroupsKeepUnmapped(rels, mapping, acc) ==
    IF rels = <<>> THEN acc
    ELSE LET rel_data == Head(rels)
             Canonical(name) == IF name \in DOMAIN mapping
                                THEN CanonicalName(mapping, name) ELSE name
             group_key == <<Canonical(rel_data.source_entity),
                            Canonical(rel_data.target_entity),
                            rel_data.relationship_type>>
             at == {i \in 1..Len(acc) : acc[i].key = group_key}
         IN  RelationGroupsKeepUnmapped(
                 Tail(rels), mapping,
                 IF at = {}
                 THEN Append(acc, [key |-> group_key, relations |-> <<rel_data>>])
                 ELSE [i \in 1..Len(acc) |->
                          IF i \in at
                          THEN [acc[i] EXCEPT !.relations = Append(@, rel_data)]
                          ELSE acc[i]])

\* step 1 of process_relations_systematic: relation_groups in insertion order,
\* as a sequence of [key, relations]
RECURSIVE RelationGroupsFrom(_, _, _)
RelationGroupsFrom(rels, mapping, acc) ==
    IF rels = <<>> THEN acc
    ELSE LET rel_data == Head(rels)
             source_name == rel_data.source_entity
             target_name == rel_data.target_entity
             rel_type == rel_data.relationship_type
         IN  IF source_name = <<>> \/ target_name = <<>> \/ rel_type = <<>>
                \/ source_name \notin DOMAIN mapping \/ target_name \notin DOMAIN mapping
             THEN RelationGroupsFrom(Tail(rels), mapping, acc)
             ELSE LET group_key == <<CanonicalName(mapping, source_name),
                                     CanonicalName(mapping, target_name), rel_type>>
                      at == {i \in 1..Len(acc) : acc[i].key = group_key}
                  IN  RelationGroupsFrom(
                          Tail(rels), mapping,
                          IF at = {}
                          THEN Append(acc, [key |-> group_key, relations |-> <<rel_data>>])
                          ELSE [i \in 1..Len(acc) |->
                                   IF i \in at
                                   THEN [acc[i] EXCEPT !.relations = Append(@, rel_data)]
                                   ELSE acc[i]])

RelationGroups(rels, mapping) == RelationGroupsFrom(rels, mapping, <<>>)

\* "Collect descriptions"
RECURSIVE MergedDescriptions(_, _)
MergedDescriptions(relations, acc) ==
    IF relations = <<>> THEN acc
    ELSE LET desc == Get(Head(relations), "description", <<>>)
         IN  MergedDescriptions(Tail(relations),
                                IF desc # <<>> THEN AppendUnique(acc, desc) ELSE acc)

PyMax(a, b) == IF b > a THEN b ELSE a

\* the strength the loop keeps: the last one seen
RECURSIVE LastStrength(_, _)
LastStrength(relations, max_strength) ==
    IF relations = <<>> THEN max_strength
    ELSE LastStrength(Tail(relations), Get(Head(relations), "strength", 1))

\* "Max strength": max_strength = max(max_strength, float(strength))
RECURSIVE MaxStrength(_, _)
MaxStrength(relations, max_strength) ==
    IF relations = <<>> THEN max_strength
    ELSE MaxStrength(Tail(relations), PyMax(max_strength, Get(Head(relations), "strength", 1)))

\* relation_properties of one relation group
RelationProperties(relation_id, rel_type, relations, source_id) ==
    [relation_id |-> relation_id,
     description |-> MergedDescriptions(relations, <<>>),
     relationTag |-> <<rel_type>>,
     type |-> rel_type,
     strength |-> MaxStrength(relations, 0),
     permissions |-> <<>>,
     sources |-> <<source_id>>]

\* "Merge with existing relation": the updates handed to update_relation
RelationUpdates(existing_relation, props, source_id) ==
    [description |-> AppendAllUniqueAny(existing_relation.description, props.description),
     relationTag |-> AppendAllUniqueAny(existing_relation.relationTag, props.relationTag),
     permissions |-> AppendAllUniqueAny(existing_relation.permissions, props.permissions),
     sources |-> AppendUnique(existing_relation.sources, source_id),
     strength |-> PyMax(props.strength, existing_relation.strength)]

-----------------------------------------------------------------------------
(* KuzuDBHandler: the relation table, a list of edges [src, tgt, r] between *)
(* nodes named src and tgt with the properties r                           *)

\* get_relation: the rows of the query (data[0] is one of them)
GetRelationRows(rs, relation_id, ok) ==
    IF ok THEN {rs[i].r : i \in {k \in 1..Len(rs) : rs[k].r.relation_id = relation_id}}
    ELSE {}

\* the relation is added without looking for the edge
CreateRelationAlways(rs, st, from_entity_type, from_entity_id, to_entity_type, to_entity_id, relation_properties, ok) ==
    LET a == {n \in NodeNamed(st, from_entity_id) : n["type"] = from_entity_type}
        b == {n \in NodeNamed(st, to_entity_id) : n["type"] = to_entity_type}
    IN  IF ~ok \/ a = {} \/ b = {} THEN [relStore |-> rs, result |-> FALSE]
        ELSE [relStore |-> Append(rs, [src |-> from_entity_id, tgt |-> to_entity_id,
                                       r |-> relation_properties]),
              result |-> TRUE]

\* the relation is merged without the MATCH of its two endpoint nodes
CreateRelationUnmatched(rs, st, from_entity_type, from_entity_id, to_entity_type, to_entity_id, relation_properties, ok) ==
    LET hit == {i \in 1..Len(rs) :
                   /\ rs[i].src = from_entity_id /\ rs[i].tgt = to_entity_id
                   /\ rs[i].r.relation_id = relation_properties.relation_id}
    IN  IF ~ok THEN [relStore |-> rs, result |-> FALSE]
        ELSE IF hit = {}
        THEN [relStore |-> Append(rs, [src |-> from_entity_id, tgt |-> to_entity_id,
                                       r |-> relation_properties]),
              result |-> TRUE]
        ELSE [relStore |-> rs, result |-> TRUE]

\* MATCH (a:Nodes), (b:Nodes) WHERE ... MERGE (a)-[r:Relation {relation_id}]->(b)
\* ON CREATE SET ... ON MATCH SET ..., r.sources = r.sources + $sources
CreateRelation(rs, st, from_entity_type, from_entity_id, to_entity_type, to_entity_id, relation_properties, ok) ==
    LET a == {n \in NodeNamed(st, from_entity_id) : n["type"] = from_entity_type}
        b == {n \in NodeNamed(st, to_entity_id) : n["type"] = to_entity_type}
        hit == {i \in 1..Len(rs) :
                   /\ rs[i].src = from_entity_id /\ rs[i].tgt = to_entity_id
                   /\ rs[i].r.relation_id = relation_properties.relation_id}
    IN  IF ~ok \/ a = {} \/ b = {} THEN [relStore |-> rs, result |-> FALSE]
        ELSE IF hit = {}
        THEN [relStore |-> Append(rs, [src |-> from_entity_id, tgt |-> to_entity_id,
                                       r |-> relation_properties]),
              result |-> TRUE]
        ELSE [relStore |->
                 [i \in 1..Len(rs) |->
                     IF i \in hit
                     THEN [rs[i] EXCEPT !.r = [relation_properties EXCEPT
                              !.sources = rs[i].r.sources \o relation_properties.sources]]
                     ELSE rs[i]],
              result |-> TRUE]

\* update_relation: MATCH ()-[r:Relation]->() WHERE r.relation_id = $relation_id SET ...
UpdateRelation(rs, relation_id, updates, ok) ==
    IF ~ok THEN rs
    ELSE [i \in 1..Len(rs) |->
             IF rs[i].r.relation_id = relation_id
             THEN [rs[i] EXCEPT !.r = [@ EXCEPT
                      !.description = updates.description,
                      !.relationTag = updates.relationTag,
                      !.permissions = updates.permissions,
                      !.strength = updates.strength,
                      !.sources = IF updates.sources # <<>> THEN @ \o updates.sources ELSE @]]
             ELSE rs[i]]


-----------------------------------------------------------------------------
(* The batch pipeline (process_batch_systematic): a batch is received, its  *)
(* entities are grouped and reconciled, every group is written, then every  *)
(* relation group is written.                                              *)

\* process_batch_systematic is entered with a batch
ReceiveBatch(b, rels, s) ==
    /\ pc = "idle"
    /\ nbatches < MaxBatches
    /\ batch' = b
    /\ relations_list' = rels
    /\ source_item_id' = s
    /\ pc' = "input"
    /\ groups' = <<>>
    /\ gi' = 1
    /\ ri' = 1
    /\ entity_mapping' = << >>
    /\ calls' = <<>>
    /\ rcalls' = <<>>
    /\ prev' = [batch |-> batch, source_item_id |-> source_item_id, store |-> store,
                relStore |-> relStore, calls |-> calls]
    /\ nbatches' = nbatches + 1
    /\ UNCHANGED <<rules, store, relStore, failures>>
    /\ UNCHANGED <<cvars, workers, closure>>

Failed(ok) == IF ok THEN 0 ELSE 1

\* every exception class derives from Exception
IsExceptionAlways(kind) == TRUE

\* isinstance(e, Exception): asyncio.CancelledError derives from BaseException
IsException(kind) == kind # "CancelledError"

\* what the embedder does when it is called: there is no inference provider,
\* it returns a vector, it returns nothing, or it raises
EmbedOutcomes == {"absent", "vector", "nothing", "raised"}

EmbeddingVector == <<"v">>

\* the embedder is called outside a try statement
EmbedErrorLeavesUncaught(embedded) == embedded = "raised"

\* the error of the embedder leaves the "try ... except Exception" around it
EmbedErrorLeaves(embedded) == embedded = "raised" /\ ~IsException("Exception")

\* "if embedding: attributes['embedding'] = embedding"
WithEmbedding(attributes, embedded) ==
    IF embedded = "vector" THEN Put(attributes, "embedding", Lst(EmbeddingVector))
    ELSE attributes

\* _merge_group_into_existing calls the embedder when the update holds one of
\* these fields
UpdateEmbedded(update_attributes, embedded) ==
    IF DOMAIN update_attributes \cap {"name", "rawDescriptions", "title", "description"}
          # {}
    THEN embedded ELSE "absent"

\* the record of the write of a group
CallRecord(op, properties, ok, embedded) ==
    IF embedded = "absent" THEN [op |-> op, properties |-> properties, ok |-> ok]
    ELSE [op |-> op, properties |-> properties, ok |-> ok, embedded |-> embedded]

\* _add_fallback_entity_mapping
FallbackMapping(group) ==
    [n \in {group.items[k].entity_name : k \in 1..Len(group.items)} |->
        [entity_id |-> n, entity_type |-> group.entity_type]]

\* one iteration of the group loop of merge_groups_to_database, with what the
\* embedder does in it
MergeGroupWith(embedded) ==
    /\ pc = "grouped"
    /\ gi <= Len(groups)
    /\ LET group == groups[gi]
           called == IF Truthy(group.primary_entity_id)
                     THEN UpdateEmbedded(MergeGroupIntoExisting(group, source_item_id),
                                         embedded)
                     ELSE embedded
       IN  IF EmbedErrorLeaves(called)
           THEN \* "except Exception" of the group loop: no write is issued
                /\ UNCHANGED <<failures, store>>
                /\ entity_mapping' =
                      Merge(entity_mapping,
                            IF Truthy(group.primary_entity_id)
                            THEN FailedMergeMapping(group) ELSE FallbackMapping(group))
                /\ calls' = Append(calls, CallRecord("none", << >>, FALSE, called))
           ELSE IF Truthy(group.primary_entity_id)
           THEN \E update_attributes \in
                      {WithEmbedding(MergeGroupIntoExisting(group, source_item_id), called)},
                   okGet, okSet \in BOOLEAN :
                   \E w \in {UpdateEntity(store, group.entity_type,
                                           group.primary_entity_id.v,
                                           update_attributes, okGet, okSet)} :
                       /\ failures + Failed(okGet) + Failed(okSet) <= MaxFailures
                       /\ failures' = failures + Failed(okGet) + Failed(okSet)
                       /\ store' = w.store
                       /\ entity_mapping' =
                             Merge(entity_mapping,
                                   IF ~IsNone(w.result) THEN MergedMapping(group)
                                   ELSE FailedMergeMapping(group))
                       /\ calls' = Append(calls,
                                          CallRecord("update_entity", update_attributes,
                                                     ~IsNone(w.result), called))
           ELSE \E merged_attributes \in
                      {WithEmbedding(CreateEntityFromGroup(group, source_item_id),
                                     embedded)},
                   ok \in BOOLEAN :
                   \E w \in {CreateEntity(store, group.entity_type, merged_attributes, ok)} :
                       /\ failures + Failed(ok) <= MaxFailures
                       /\ failures' = failures + Failed(ok)
                       /\ store' = w.store
                       /\ entity_mapping' =
                             IF ~IsNone(w.result)
                             THEN Merge(entity_mapping,
                                        CreatedMapping(group, group.items[1].entity_name))
                             ELSE entity_mapping
                       /\ calls' = Append(calls,
                                          CallRecord("create_entity", merged_attributes,
                                                     ~IsNone(w.result), embedded))
    /\ gi' = gi + 1
    /\ UNCHANGED <<rules, pc, batch, groups, source_item_id, relations_list, ri, rcalls,
                   relStore, prev, nbatches>>
    /\ UNCHANGED <<cvars, workers, closure>>

\* ... when the provider has no inference provider
MergeGroup == MergeGroupWith("absent")

\* the relations are handled without waiting for merge_groups_to_database
GroupsMergedUnawaited == TRUE

\* merge_groups_to_database has returned: process_batch_systematic awaits it
\* before it calls process_relations_systematic
GroupsMerged == gi > Len(groups)

\* the value False of Python
PyFalse == [k |-> "bool", v |-> FALSE]

\* the relation is skipped whenever the lookup has not returned the entity
LookupSaysAbsentOrFailed(exists) == exists = PyFalse \/ IsNone(exists)

\* source_exists is False: get_entity returns the entity or None (for an
\* absent entity and for a store error alike), never False
LookupSaysAbsent(exists) == exists = PyFalse

\* the record of a relation group handled by process_relations_systematic
RelationCall(op, relation_id, okSource, okTarget, source_exists, target_exists, created) ==
    [op |-> op, relation_id |-> relation_id, okSource |-> okSource, okTarget |-> okTarget,
     source_found |-> ~IsNone(source_exists) /\ source_exists # PyFalse,
     target_found |-> ~IsNone(target_exists) /\ target_exists # PyFalse,
     created |-> created]

\* the record of a relation group with what the embedder did for it
RelationCallWith(embedded, op, relation_id, okSource, okTarget, source_exists, target_exists, created) ==
    IF embedded = "absent"
    THEN RelationCall(op, relation_id, okSource, okTarget, source_exists, target_exists,
                      created)
    ELSE Merge(RelationCall(op, relation_id, okSource, okTarget, source_exists,
                            target_exists, created),
               [embedded |-> embedded,
                embedding |-> IF embedded = "vector" THEN EmbeddingVector ELSE <<>>])

\* one iteration of step 2 of process_relations_systematic, with what the
\* embedder does in it
ProcessRelationGroupWith(embedded) ==
    /\ pc = "grouped"
    /\ GroupsMerged
    /\ ri <= Len(RelationGroups(relations_list, entity_mapping))
    /\ LET rg == RelationGroups(relations_list, entity_mapping)[ri]
           canonical_source_name == rg.key[1]
           canonical_target_name == rg.key[2]
           rel_type == rg.key[3]
           relation_id == GenerateRelationId(canonical_source_name, canonical_target_name,
                                             rel_type)
           relation_properties == RelationProperties(relation_id, rel_type, rg.relations,
                                                     source_item_id)
           first_relation == rg.relations[1]
           source_type == entity_mapping[first_relation.source_entity]["entity_type"]
           target_type == entity_mapping[first_relation.target_entity]["entity_type"]
       IN  \E okGet, okSource, okTarget, okWrite \in BOOLEAN :
              LET rows == GetRelationRows(relStore, relation_id, okGet)
                  failed == Failed(okGet) + Failed(okSource) + Failed(okTarget)
                            + Failed(okWrite)
              IN  /\ failures + failed <= MaxFailures
                  /\ failures' = failures + failed
                  /\ IF EmbedErrorLeaves(embedded)
                     THEN \* "except Exception" of the relation loop: no write
                          /\ okSource /\ okTarget /\ okWrite
                          /\ relStore' = relStore
                          /\ rcalls' = Append(rcalls,
                                              RelationCallWith(embedded, "failed",
                                                               relation_id, TRUE, TRUE,
                                                               None, None, FALSE))
                     ELSE IF rows # {}
                     THEN \* no endpoint lookup is issued
                          /\ okSource /\ okTarget
                          /\ \E existing_relation \in rows :
                                relStore' = UpdateRelation(
                                                relStore, relation_id,
                                                RelationUpdates(existing_relation,
                                                                relation_properties,
                                                                source_item_id),
                                                okWrite)
                          /\ rcalls' = Append(rcalls,
                                              RelationCallWith(embedded, "update_relation", relation_id,
                                                           TRUE, TRUE, None, None, FALSE))
                     ELSE \E source_exists \in {GetEntity(store, source_type,
                                                          canonical_source_name, okSource)},
                             target_exists \in {GetEntity(store, target_type,
                                                          canonical_target_name, okTarget)} :
                             IF \/ LookupSaysAbsent(source_exists)
                                \/ LookupSaysAbsent(target_exists)
                             THEN \* continue: create_relation is not called
                                  /\ okWrite
                                  /\ relStore' = relStore
                                  /\ rcalls' = Append(rcalls,
                                                      RelationCallWith(embedded, "skipped", relation_id,
                                                                   okSource, okTarget,
                                                                   source_exists,
                                                                   target_exists, FALSE))
                             ELSE \E w \in {CreateRelation(relStore, store, source_type,
                                                           canonical_source_name,
                                                           target_type,
                                                           canonical_target_name,
                                                           relation_properties, okWrite)} :
                                     /\ relStore' = w.relStore
                                     /\ rcalls' =
                                           Append(rcalls,
                                                  RelationCallWith(embedded, 
                                                      "create_relation", relation_id,
                                                      okSource, okTarget,
                                                      source_exists, target_exists,
                                                      w.result))
    /\ ri' = ri + 1
    /\ UNCHANGED <<rules, pc, batch, groups, store, source_item_id, relations_list, gi,
                   entity_mapping, calls, prev, nbatches>>
    /\ UNCHANGED <<cvars, workers, closure>>

\* ... when the provider has no inference provider
ProcessRelationGroup == ProcessRelationGroupWith("absent")

\* process_batch_systematic returns
FinishBatch ==
    /\ pc = "grouped"
    /\ GroupsMerged
    /\ ri > Len(RelationGroups(relations_list, entity_mapping))
    /\ pc' = "idle"
    /\ UNCHANGED <<rules, batch, groups, store, source_item_id, relations_list, gi, ri,
                   entity_mapping, calls, rcalls, relStore, prev, nbatches, failures>>
    /\ UNCHANGED <<cvars, workers, closure>>

\* the grouping specification: the groups of the batch are then written by
\* merge_groups_to_database
GNext ==
    \/ \E r \in Range(GroupingRecords) : ReceiveEntity(r)
    \/ ProcessEntitiesSystematic
    \/ MergeGroup

SpecGroup == GInit /\ [][GNext]_vars


-----------------------------------------------------------------------------
(* Inputs of the merge specification                                       *)

D1 == <<"d", "1">>
D2 == <<"d", "2">>
D3 == <<"d", "3">>

\* the records a batch of the merge specification is drawn from
MergeRecords ==
    << EntityData("Person", <<"j">>,
                  [email |-> Str(<<"e">>), description |-> Lst(<<D1, D2>>)]),
       EntityData("Person", <<"k">>,
                  [email |-> Str(<<"e">>), description |-> Lst(<<D2, D3>>),
                   worksAt |-> Str(<<"w">>)]),
       EntityData("Person", <<"J">>, [description |-> Str(D1)]),
       EntityData("Person", <<"j">>,
                  [aliases |-> Lst(<< <<"J">> >>), worksAt |-> Str(<<"v">>)]),
       EntityData("Team", <<"t">>, [description |-> Lst(<<D1, D2>>)]) >>

MergeBatches == UNION {[1..n -> Range(MergeRecords)] : n \in 0..MaxItems}

SourceIds == {<<"s", "1">>}

\* parse_relationship_record
RelationData(source_entity, target_entity, relationship_type, description, strength) ==
    [source_entity |-> source_entity, target_entity |-> target_entity,
     relationship_type |-> relationship_type, description |-> description,
     strength |-> strength]

MergeRelationLists == { << RelationData(<<"j">>, <<"k">>, <<"t">>, D1, 5) >> }

\* the node an earlier batch {Person j, email e, description d1} of source s0
\* has left in the store
StoredEntity ==
    CreateEntity({}, "Person",
                 CreateEntityFromGroup(
                     NewGroup("Person_group_0", "Person",
                              << ItemOf(<< EntityData("Person", <<"j">>,
                                                      [email |-> Str(<<"e">>),
                                                       description |-> Str(D1)]) >>, 1) >>),
                     <<"s", "0">>),
                 TRUE).result

InitialStores == {{}, {StoredEntity}}

\* a rule on a field that the schema of Person does not have
ExactAbsentFieldRule(p) ==
    [rule |-> "exact", match |-> "email", db |-> "email", type |-> "string",
     confidence |-> 85, priority |-> p]

MergeRuleConfigs ==
    {Dict1("Person", rl) :
        rl \in { <<>>,
                 <<ExactNameRule(1), SearchEmailRule(2)>>,
                 <<ExactEmailRule, ExactNameRule(1)>>,
                 <<ExactNameRule(2), ExactAbsentFieldRule(1)>> }}

Init ==
    /\ rules \in MergeRuleConfigs
    /\ pc = "idle"
    /\ batch = <<>>
    /\ groups = <<>>
    /\ store \in InitialStores
    /\ source_item_id = <<>>
    /\ relations_list = <<>>
    /\ gi = 1
    /\ ri = 1
    /\ entity_mapping = << >>
    /\ calls = <<>>
    /\ rcalls = <<>>
    /\ relStore = <<>>
    /\ prev = [batch |-> <<>>, source_item_id |-> <<>>, store |-> store, relStore |-> <<>>,
               calls |-> <<>>]
    /\ nbatches = 0
    /\ failures = 0
    /\ CypherIdle
    /\ workers = << >>
    /\ closure = ClosureIdle

Next ==
    \/ \E b \in MergeBatches, rels \in MergeRelationLists, s \in SourceIds :
          ReceiveBatch(b, rels, s)
    \/ ProcessEntitiesSystematic
    \/ MergeGroup
    \/ ProcessRelationGroup
    \/ FinishBatch

Spec == Init /\ [][Next]_vars


-----------------------------------------------------------------------------
(* Inputs of the relation specification: Team records (no matching rules,  *)
(* so names are matched by _basic_name_match and every write is an upsert) *)
(* and relations between them.                                             *)

NameA == <<"a">>
NameUpperA == <<"A">>
\* a name that holds the separator of the relation id
NameB == <<"a", ":", ":", "t", ":", ":", "a">>
TypeT == <<"t">>

RelationEntities ==
    << EntityData("Team", NameA, << >>),
       EntityData("Team", NameUpperA, << >>),
       EntityData("Team", NameB, << >>) >>

\* the relations a batch of the relation specification is drawn from
RelationRecords ==
    << RelationData(NameA, NameB, TypeT, D1, 5),
       RelationData(NameUpperA, NameB, TypeT, D2, 7),
       RelationData(NameB, NameA, TypeT, D1, 7),
       RelationData(NameA, NameB, TypeT, D1, 3),
       RelationData(NameA, <<"z">>, TypeT, D1, 5) >>

RelationLists == UNION {[1..n -> Range(RelationRecords)] : n \in 0..MaxRelations}

RInit ==
    /\ rules = Dict1("Person", <<>>)
    /\ pc = "idle"
    /\ batch = <<>>
    /\ groups = <<>>
    /\ store = {}
    /\ source_item_id = <<>>
    /\ relations_list = <<>>
    /\ gi = 1
    /\ ri = 1
    /\ entity_mapping = << >>
    /\ calls = <<>>
    /\ rcalls = <<>>
    /\ relStore = <<>>
    /\ prev = [batch |-> <<>>, source_item_id |-> <<>>, store |-> {}, relStore |-> <<>>,
               calls |-> <<>>]
    /\ nbatches = 0
    /\ failures = 0
    /\ CypherIdle
    /\ workers = << >>
    /\ closure = ClosureIdle

RNext ==
    \/ \E rels \in RelationLists, s \in SourceIds : ReceiveBatch(RelationEntities, rels, s)
    \/ ProcessEntitiesSystematic
    \/ MergeGroup
    \/ ProcessRelationGroup
    \/ FinishBatch

SpecRel == RInit /\ [][RNext]_vars


-----------------------------------------------------------------------------
(* Properties of the entity writes                                         *)

NoDuplicates(l) == \A i, j \in 1..Len(l) : l[i] = l[j] => i = j

Count(l, x) == Cardinality({i \in 1..Len(l) : l[i] = x})

\* every entity group of the batch has been written
EntitiesDone == pc = "grouped" /\ gi > Len(groups)

AllOk(cs) == \A i \in 1..Len(cs) : cs[i].ok

\* the name of the stored entity a group is written to
WrittenName(group) ==
    IF Truthy(group.primary_entity_id) THEN group.primary_entity_id.v
    ELSE group.items[1].entity_name

\* the batch is the batch before it again, one group, with the same
\* provenance id, and no store call of either run has failed
Rerun ==
    /\ EntitiesDone
    /\ nbatches > 1
    /\ Len(groups) = 1
    /\ batch = prev.batch
    /\ source_item_id = prev.source_item_id
    /\ failures = 0
    /\ AllOk(calls) /\ AllOk(prev.calls) /\ Len(prev.calls) = 1 /\ Len(calls) = 1

\* node n is node m with no array field gaining a duplicate and no non-empty
\* scalar changed
Preserved(m, n) ==
    /\ n["type"] = m["type"]
    /\ \A f \in DOMAIN m \ {"type"} :
          /\ f \in DOMAIN n
          /\ IsList(m[f]) => (IsList(n[f]) /\ (NoDuplicates(m[f].v) => NoDuplicates(n[f].v)))
          /\ (~IsList(m[f]) /\ Truthy(m[f])) => n[f] = m[f]

\* C2: processing the same group a second time, from the store the first run
\* left, gives no array field of the stored entity a duplicate entry and
\* changes no scalar field that had a value, whether the second run updates
\* the entity or upserts it.
C2_Idempotent ==
    Rerun =>
        \A m \in NodeNamed(prev.store, WrittenName(groups[1])) :
            \A n \in NodeNamed(store, WrittenName(groups[1])) : Preserved(m, n)

\* the same for a second run that reconciles to the stored entity
C2_UpdatePath ==
    (Rerun /\ calls[1].op = "update_entity") =>
        \A m \in NodeNamed(prev.store, WrittenName(groups[1])) :
            \A n \in NodeNamed(store, WrittenName(groups[1])) : Preserved(m, n)

\* C3: every name the canonical map resolves to a stored entity E is the name
\* of E or one of its aliases, and is the name of no other node.
C3_NamesAreAliases ==
    EntitiesDone =>
        \A name \in DOMAIN entity_mapping :
            "primary_name" \in DOMAIN entity_mapping[name] =>
                \A e \in NodeNamed(store, entity_mapping[name]["primary_name"]) :
                    /\ \/ name = e["name"].v
                       \/ name \in Range(Get(e, "aliases", Lst(<<>>)).v)
                    /\ name # e["name"].v => NodeNamed(store, name) = {}

\* the rawDescriptions the items of a group contribute, in item order
RECURSIVE Contributions(_, _)
Contributions(entity_type, items) ==
    IF items = <<>> THEN <<>>
    ELSE Get(TransformAttributesForDatabase(entity_type, Head(items).attributes),
             "rawDescriptions", Lst(<<>>)).v
         \o Contributions(entity_type, Tail(items))

\* the rawDescriptions of the node of that name, [] when there is none
StoredDescriptions(st, entity_id) ==
    IF NodeNamed(st, entity_id) = {} THEN <<>>
    ELSE Get(CHOOSE n \in NodeNamed(st, entity_id) : TRUE, "rawDescriptions", Lst(<<>>)).v

\* the first group of the batch has just been written and no store call has
\* failed
FirstWritten == pc = "grouped" /\ gi = 2 /\ Len(calls) = 1 /\ calls[1].ok /\ failures = 0

\* C7: after a group is written, rawDescriptions is the list that was stored
\* followed by the values of the items that were not yet present, in the order
\* of their first occurrence.
C7_ArrayUnion ==
    FirstWritten =>
        StoredDescriptions(store, WrittenName(groups[1]))
            = AppendAllUnique(StoredDescriptions(prev.store, WrittenName(groups[1])),
                              Contributions(groups[1].entity_type, groups[1].items))

\* the same for a group merged into the entity it was reconciled with
C7_UpdatePath ==
    (FirstWritten /\ calls[1].op = "update_entity") =>
        StoredDescriptions(store, WrittenName(groups[1]))
            = AppendAllUnique(StoredDescriptions(prev.store, WrittenName(groups[1])),
                              Contributions(groups[1].entity_type, groups[1].items))

-----------------------------------------------------------------------------
(* Properties of the relation writes                                       *)

\* the (canonical source, canonical target, relation type) of a stored edge
TripleOf(edge) == <<edge.src, edge.tgt, edge.r.type>>

EdgesOf(rs, key) == {i \in 1..Len(rs) : TripleOf(rs[i]) = key}

\* the relation groups of the batch
BatchGroups == RelationGroups(relations_list, entity_mapping)

GroupId(rg) == GenerateRelationId(rg.key[1], rg.key[2], rg.key[3])

\* C4: the store never holds two relations with the same canonical source,
\* canonical target and relation type.
C4_OneRelationPerTriple ==
    \A i, j \in 1..Len(relStore) :
        TripleOf(relStore[i]) = TripleOf(relStore[j]) => i = j

\* a relation group whose triple the batch before had stored has been
\* processed, found or not found by get_relation
C4_Witness ==
    /\ EntitiesDone
    /\ ri > 1
    /\ EdgesOf(prev.relStore, BatchGroups[1].key) # {}
    /\ failures = 1
    /\ Len(relStore[1].r.sources) > 1

\* C8: two relation groups of a batch with swapped endpoints are stored as two
\* relations with different ids, each from its own source to its own target.
C8_DirectionKept ==
    (EntitiesDone /\ ri > Len(BatchGroups) /\ failures = 0) =>
        \A g, h \in 1..Len(BatchGroups) :
            LET k1 == BatchGroups[g].key
                k2 == BatchGroups[h].key
            IN  (k1[1] = k2[2] /\ k1[2] = k2[1] /\ k1[3] = k2[3] /\ k1[1] # k1[2]) =>
                    \E i \in EdgesOf(relStore, k1), j \in EdgesOf(relStore, k2) :
                        relStore[i].r.relation_id # relStore[j].r.relation_id

\* the values of l that are not empty, each at its first occurrence
FirstOccurrences(l) ==
    LET idx == {i \in 1..Len(l) : l[i] # <<>> /\ \A j \in 1..(i - 1) : l[j] # l[i]}
        nth(k) == CHOOSE i \in idx : Cardinality({j \in idx : j < i}) = k - 1
    IN  [k \in 1..Cardinality(idx) |-> l[nth(k)]]

Maximum(S) == CHOOSE m \in S : \A x \in S : x <= m

\* the relation of the group was not stored before the batch and no other
\* group of the batch has its id
Fresh(g) ==
    /\ \A i \in 1..Len(prev.relStore) : prev.relStore[i].r.relation_id # GroupId(BatchGroups[g])
    /\ \A h \in 1..Len(BatchGroups) : GroupId(BatchGroups[h]) = GroupId(BatchGroups[g]) => h = g

-----------------------------------------------------------------------------
(* MergePipeline: the legacy path process_batch, which process_batch_-      *)
(* systematic falls back to when the systematic path raises.  In this path  *)
(* entity_mapping holds processed_entities.                                 *)

TypeText(entity_type) ==
    CASE entity_type = "Person" -> <<"P", "e", "r", "s", "o", "n">>
      [] entity_type = "Team" -> <<"T", "e", "a", "m">>
      [] OTHER -> <<>>

\* attributes['emails'][0]
FirstEmail(emails) == IF IsList(emails) THEN emails.v[1] ELSE <<emails.v[1]>>

\* the branch of _generate_entity_id that is taken
EntityIdBranch(entity_type, attributes) ==
    IF entity_type = "Person" /\ "emails" \in DOMAIN attributes /\ Truthy(attributes["emails"])
    THEN "email"
    ELSE IF entity_type = "Person" /\ {"name", "worksAt"} \subseteq DOMAIN attributes
    THEN "name_worksAt"
    ELSE IF "name" \in DOMAIN attributes THEN "name"
    ELSE "fallback"

\* _generate_entity_id raises: .lower() of a value that is not a str
GenerateEntityIdRaises(entity_type, attributes) ==
    LET branch == EntityIdBranch(entity_type, attributes)
    IN  \/ branch = "name_worksAt" /\ \/ attributes["name"].k # "str"
                                      \/ attributes["worksAt"].k # "str"
        \/ branch = "name" /\ attributes["name"].k # "str"

\* _generate_entity_id (the digest is modelled by the text it is taken of)
GenerateEntityId(entity_type, attributes) ==
    LET branch == EntityIdBranch(entity_type, attributes)
    IN  TypeText(entity_type) \o
        CASE branch = "email" ->
                <<":", ":", "e", "m", "a", "i", "l", ":", ":">>
                \o Lower(FirstEmail(attributes["emails"]))
          [] branch = "name_worksAt" ->
                <<":", ":", "n", "a", "m", "e", "_", "w", "o", "r", "k", "s", "A", "t", ":", ":">>
                \o Lower(attributes["name"].v) \o <<":", ":">> \o Lower(attributes["worksAt"].v)
          [] branch = "name" ->
                <<":", ":", "n", "a", "m", "e", ":", ":">> \o Lower(attributes["name"].v)
          [] OTHER -> <<":", ":", "f", "a", "l", "l", "b", "a", "c", "k", ":", ":">>

\* _find_existing_entity: the values it can return, {Raised} when one of its
\* two execute_cypher calls raises (they are not in a try block)
LegacyFindExistingEntity(st, entity_type, attributes, okGet, okQuery) ==
    LET existing_entity ==
            GetEntity(st, entity_type, GenerateEntityId(entity_type, attributes), okGet)
        has_email == entity_type = "Person" /\ "email" \in DOMAIN attributes
        has_name_worksAt ==
            entity_type = "Person" /\ {"name", "worksAt"} \subseteq DOMAIN attributes
        \* MATCH (p:Person) WHERE $email IN p.emails RETURN p
        by_email ==
            IF has_email
            THEN {n \in st : /\ n["type"] = "Person"
                             /\ "emails" \in DOMAIN n
                             /\ IsList(n["emails"])
                             /\ attributes["email"].k = "str"
                             /\ attributes["email"].v \in Range(n["emails"].v)}
            ELSE {}
        \* MATCH (p:Person {name: $name, worksAt: $worksAt}) RETURN p
        by_name_worksAt ==
            IF has_name_worksAt
            THEN {n \in st : /\ n["type"] = "Person"
                             /\ n["name"] = attributes["name"]
                             /\ "worksAt" \in DOMAIN n
                             /\ n["worksAt"] = attributes["worksAt"]}
            ELSE {}
    IN  IF ~IsNone(existing_entity) THEN {existing_entity}
        ELSE IF (has_email \/ has_name_worksAt) /\ ~okQuery THEN {Raised}
        ELSE IF by_email # {} THEN by_email
        ELSE IF by_name_worksAt # {} THEN by_name_worksAt
        ELSE {None}

\* entity_config.get_merge_strategy
GetMergeStrategy(entity_type, field_name) ==
    LET mappings == GetDbFields(entity_type)
    IN  IF field_name \in DOMAIN mappings
        THEN Get(mappings[field_name], "merge_strategy", "replace_if_better")
        ELSE "replace_if_better"

\* entity_config.should_merge_field, is_from_agent = False
ShouldMergeField(entity_type, field_name) ==
    GetMergeStrategy(entity_type, field_name) # "agent_only"

\* the loop of _process_attributes over attributes.items()
RECURSIVE ProcessFrom(_, _, _, _)
ProcessFrom(entity_type, attributes, fields, processed) ==
    IF fields = <<>> THEN processed
    ELSE LET llm_field == Head(fields)
             target_field == GetTargetField(entity_type, llm_field)
             transformed_value == TransformValue(llm_field, attributes[llm_field])
             next(p) == ProcessFrom(entity_type, attributes, Tail(fields), p)
         IN  IF ~ShouldMergeField(entity_type, llm_field) THEN next(processed)
             ELSE IF llm_field = "description"
             THEN IF Truthy(transformed_value)
                  THEN next(Put(processed, "rawDescriptions",
                                Lst(processed["rawDescriptions"].v \o transformed_value.v)))
                  ELSE next(processed)
             ELSE next(Put(processed, target_field, transformed_value))

\* _process_attributes
ProcessAttributes(entity_type, attributes, source_id) ==
    LET entity_array_fields == GetEntityArrayFields(entity_type)
        initial == Merge(Dict1("rawDescriptions", Lst(<<>>)),
                         IF "sources" \in Range(entity_array_fields)
                         THEN Dict1("sources", Lst(<<>>)) ELSE << >>)
        sourced(p) ==
            IF "sources" \in DOMAIN p /\ source_id \notin Range(p["sources"].v)
            THEN Put(p, "sources", Lst(Append(p["sources"].v, source_id)))
            ELSE p
        listed(p) ==
            Merge([f \in DOMAIN p |->
                      IF f \in Range(entity_array_fields) THEN AsList(p[f]) ELSE p[f]],
                  [f \in Range(entity_array_fields) \ DOMAIN p |-> Lst(<<>>)])
    IN  listed(sourced(ProcessFrom(entity_type, attributes, InOrder(DOMAIN attributes),
                                   initial)))

\* len(str(existing_value)) of the replace_if_better comparison
StrLen(val) == Len(PyStr(val))

\* _merge_attributes, for one field
MergeAttribute(entity_type, existing_entity, field, new_value) ==
    LET strategy == GetMergeStrategy(entity_type, field)
        has_value == field \in DOMAIN existing_entity /\ Truthy(existing_entity[field])
        existing_list == IF field \in DOMAIN existing_entity /\ IsList(existing_entity[field])
                         THEN existing_entity[field].v ELSE <<>>
    IN  CASE strategy = "preserve_existing" ->
                IF ~has_value THEN Dict1(field, new_value) ELSE << >>
          [] strategy = "append_unique" ->
                IF IsList(new_value)
                THEN Dict1(field, Lst(AppendAllUnique(existing_list, new_value.v)))
                ELSE IF new_value.v \notin Range(existing_list)
                THEN Dict1(field, Lst(Append(existing_list, new_value.v)))
                ELSE << >>
          [] strategy = "replace_always" -> Dict1(field, new_value)
          [] strategy = "replace_if_better" ->
                IF \/ ~has_value
                   \/ new_value.k = "str" /\ Len(new_value.v) > StrLen(existing_entity[field])
                THEN Dict1(field, new_value) ELSE << >>
          [] OTHER -> << >>

\* _merge_attributes
RECURSIVE MergeAttributesFrom(_, _, _, _)
MergeAttributesFrom(entity_type, existing_entity, new_attributes, fields) ==
    IF fields = <<>> THEN << >>
    ELSE Merge(MergeAttributesFrom(entity_type, existing_entity, new_attributes,
                                   Tail(fields)),
               MergeAttribute(entity_type, existing_entity, Head(fields),
                              new_attributes[Head(fields)]))

MergeAttributes(entity_type, existing_entity, new_attributes) ==
    MergeAttributesFrom(entity_type, existing_entity, new_attributes,
                        InOrder(DOMAIN new_attributes))

\* one iteration of the entity loop of process_batch, for the value that
\* _find_existing_entity returned: the store and processed_entities it
\* leaves, raised when the iteration raises
LegacyEntityStep(st, mapping, entity_raw, source_id, existing_entity, okGet, okWrite) ==
    LET entity_type == entity_raw.entity_type
        entity_name == entity_raw.entity_name
        processed_attributes ==
            ProcessAttributes(entity_type, entity_raw.attributes, source_id)
        same == [raised |-> FALSE, store |-> st, mapping |-> mapping]
        mapped(entity_id) ==
            Put(mapping, entity_name, [entity_id |-> entity_id, entity_type |-> entity_type])
        updated(entity_id, updates) ==
            [raised |-> FALSE,
             store |-> IF updates = << >> THEN st
                       ELSE UpdateEntity(st, entity_type, entity_id, updates, okGet,
                                         okWrite).store,
             mapping |-> mapped(entity_id)]
        created(entity_id, w) ==
            [raised |-> FALSE, store |-> w.store,
             mapping |-> IF IsNone(w.result) THEN mapping ELSE mapped(entity_id)]
    IN  IF entity_name = <<>> THEN same
        ELSE IF existing_entity = Raised THEN [same EXCEPT !.raised = TRUE]
        ELSE IF ~IsNone(existing_entity)
        THEN \* existing_entity['entity_id']
             IF "entity_id" \notin DOMAIN existing_entity
             THEN [same EXCEPT !.raised = TRUE]
             ELSE updated(existing_entity["entity_id"].v,
                          MergeAttributes(entity_type, existing_entity,
                                          processed_attributes))
        ELSE IF GenerateEntityIdRaises(entity_type, processed_attributes)
        THEN [same EXCEPT !.raised = TRUE]
        ELSE created(GenerateEntityId(entity_type, processed_attributes),
                     CreateEntity(st, entity_type,
                                  Put(processed_attributes, "entity_id",
                                      Str(GenerateEntityId(entity_type,
                                                           processed_attributes))),
                                  okWrite))

\* one iteration of the entity loop of process_batch
LegacyEntity ==
    /\ pc = "legacy"
    /\ gi <= Len(batch)
    /\ \E okGet, okQuery, okWrite \in BOOLEAN :
          /\ failures + Failed(okGet) + Failed(okQuery) + Failed(okWrite) <= MaxFailures
          /\ failures' = failures + Failed(okGet) + Failed(okQuery) + Failed(okWrite)
          /\ \E existing_entity \in
                   IF batch[gi].entity_name = <<>> THEN {None}
                   ELSE IF GenerateEntityIdRaises(batch[gi].entity_type,
                                                  batch[gi].attributes)
                   THEN {Raised}
                   ELSE LegacyFindExistingEntity(store, batch[gi].entity_type,
                                                 batch[gi].attributes, okGet, okQuery) :
                \E w \in {LegacyEntityStep(store, entity_mapping, batch[gi], source_item_id,
                                           existing_entity, okGet, okWrite)} :
                   /\ store' = w.store
                   /\ entity_mapping' = w.mapping
                   /\ pc' = IF w.raised THEN "raised" ELSE "legacy"
    /\ gi' = gi + 1
    /\ UNCHANGED <<rules, batch, groups, source_item_id, relations_list, ri, calls,
                   rcalls, relStore, prev, nbatches>>
    /\ UNCHANGED <<cvars, workers, closure>>

\* _generate_relation_id of the pipeline
LegacyRelationId(from_entity_id, to_entity_id, relation_type, relation_tag) ==
    from_entity_id \o <<":", ":">> \o relation_type \o <<":", ":">> \o relation_tag
        \o <<":", ":">> \o to_entity_id

\* create_relation refuses properties without relation_id or relationTag
HasRelationKeys(relation_properties) ==
    {"relation_id", "relationTag"} \subseteq DOMAIN relation_properties

\* one iteration of the relation loop of process_batch
LegacyRelation ==
    /\ pc = "legacy"
    /\ gi > Len(batch)
    /\ ri <= Len(relations_list)
    /\ LET rel_raw == relations_list[ri]
           source_entity_name == rel_raw.source_entity
           target_entity_name == rel_raw.target_entity
           relationship_type == rel_raw.relationship_type
       IN  IF \/ source_entity_name = <<>> \/ target_entity_name = <<>>
              \/ relationship_type = <<>>
              \/ source_entity_name \notin DOMAIN entity_mapping
              \/ target_entity_name \notin DOMAIN entity_mapping
           THEN UNCHANGED <<relStore, failures>>
           ELSE \E ok \in BOOLEAN :
                   LET from == entity_mapping[source_entity_name]
                       to == entity_mapping[target_entity_name]
                       relation_properties ==
                           [relation_id |-> LegacyRelationId(from.entity_id, to.entity_id,
                                                             relationship_type,
                                                             relationship_type),
                            sources |-> <<source_item_id>>]
                   IN  /\ failures + Failed(ok) <= MaxFailures
                       /\ failures' = failures + Failed(ok)
                       /\ relStore' =
                             IF HasRelationKeys(relation_properties)
                             THEN CreateRelation(relStore, store, from.entity_type,
                                                 from.entity_id, to.entity_type,
                                                 to.entity_id, relation_properties,
                                                 ok).relStore
                             ELSE relStore
    /\ ri' = ri + 1
    /\ UNCHANGED <<rules, pc, batch, groups, store, source_item_id, relations_list, gi,
                   entity_mapping, calls, rcalls, prev, nbatches>>
    /\ UNCHANGED <<cvars, workers, closure>>

\* process_batch returns its result, and process_batch_systematic returns it
FinishLegacy ==
    /\ pc = "legacy"
    /\ gi > Len(batch)
    /\ ri > Len(relations_list)
    /\ pc' = "idle"
    /\ UNCHANGED <<rules, batch, groups, store, source_item_id, relations_list, gi, ri,
                   entity_mapping, calls, rcalls, relStore, prev, nbatches, failures>>
    /\ UNCHANGED <<cvars, workers, closure>>

\* process_batch_systematic has raised; process_batches records the error of
\* the batch and goes on with the next batch
BatchRaised ==
    /\ pc = "raised"
    /\ pc' = "idle"
    /\ UNCHANGED <<rules, batch, groups, store, source_item_id, relations_list, gi, ri,
                   entity_mapping, calls, rcalls, relStore, prev, nbatches, failures>>
    /\ UNCHANGED <<cvars, workers, closure>>


-----------------------------------------------------------------------------
(* Inputs of the error specification: records with a bracketed email, which *)
(* parse_entity_record stores as a list.                                    *)

\* a rule on the special case of the Person email, stored in emails
ExactEmailsRule(p) ==
    [rule |-> "exact", match |-> "email", db |-> "emails", type |-> "string",
     confidence |-> 85, priority |-> p]

ErrRecords ==
    << EntityData("Person", <<"m">>, Dict1("email", Lst(<< <<"e">> >>))),
       EntityData("Person", <<"j">>, Dict1("email", Str(<<"e">>))),
       EntityData("Person", <<"k">>, [email |-> Str(<<"f">>), worksAt |-> Str(<<"w">>)]),
       EntityData("Team", <<"j">>, Dict1("description", Str(D1))) >>

ErrBatches == UNION {[1..n -> Range(ErrRecords)] : n \in 0..MaxItems}

ErrRelationLists ==
    { << RelationData(<<"j">>, <<"j">>, <<"t">>, D1, 5),
         RelationData(<<"k">>, <<"j">>, <<"t">>, D1, 5) >> }

ErrRuleConfigs ==
    {Dict1("Person", rl) :
        rl \in { <<ExactEmailsRule(1), ExactNameRule(2)>>,
                 <<ExactNameRule(1), SearchEmailRule(2)>> }}

EInit ==
    /\ rules \in ErrRuleConfigs
    /\ pc = "idle"
    /\ batch = <<>>
    /\ groups = <<>>
    /\ store \in InitialStores
    /\ source_item_id = <<>>
    /\ relations_list = <<>>
    /\ gi = 1
    /\ ri = 1
    /\ entity_mapping = << >>
    /\ calls = <<>>
    /\ rcalls = <<>>
    /\ relStore = <<>>
    /\ prev = [batch |-> <<>>, source_item_id |-> <<>>, store |-> store, relStore |-> <<>>,
               calls |-> <<>>]
    /\ nbatches = 0
    /\ failures = 0
    /\ CypherIdle
    /\ workers = << >>
    /\ closure = ClosureIdle

ENext ==
    \/ \E b \in ErrBatches, rels \in ErrRelationLists, s \in SourceIds :
          ReceiveBatch(b, rels, s)
    \/ ProcessEntitiesSystematic
    \/ ProcessEntitiesRaises
    \/ MergeGroup
    \/ ProcessRelationGroup
    \/ FinishBatch
    \/ LegacyEntity
    \/ LegacyRelation
    \/ FinishLegacy
    \/ BatchRaised

SpecErr == EInit /\ [][ENext]_vars


-----------------------------------------------------------------------------
(* Error handling of merge_groups_to_database                              *)

\* the group whose write is recorded as the i-th store call of the batch
GroupOfCall(i) == groups[i]

ItemNames(group) == {group.items[k].entity_name : k \in 1..Len(group.items)}

\* C11: once the store write of an entity group has failed, every item name of
\* that group has an entry in the canonical map.
C11_FailedGroupMapped ==
    \A i \in 1..Len(calls) :
        ~calls[i].ok => ItemNames(GroupOfCall(i)) \subseteq DOMAIN entity_mapping

\* the failed update keeps the fallback entries of the group (the part of C11
\* that the code does provide)
C11_FailedUpdateMapped ==
    \A i \in 1..Len(calls) :
        (~calls[i].ok /\ calls[i].op = "update_entity")
            => ItemNames(GroupOfCall(i)) \subseteq DOMAIN entity_mapping


\* the reconciliation of the group raises
ReconcileRaises(group) ==
    Raised \in FindExistingEntitySystematic(group.entity_type, group.items[1].attributes)

\* C12: an error raised for one entity group stays scoped to that group: the
\* systematic path is left for a batch only when no group of the batch is
\* free of the error, so every other group is still handled by it.
C12_FailureScoped ==
    pc \in {"legacy", "raised"} =>
        \A i \in 1..Len(GroupEntities(batch)) : ReconcileRaises(GroupEntities(batch)[i])


\* C20: process_batch_systematic returns a result for every batch and never
\* raises.
C20_NeverRaises == pc # "raised"


-----------------------------------------------------------------------------
(* Merge into an existing entity: scalar fields                             *)

\* the scalar fields of an entity type that are under preserve_existing
PreservedScalars(entity_type) ==
    {f \in DOMAIN GetDbFields(entity_type) :
        /\ GetMergeStrategy(entity_type, f) = "preserve_existing"
        /\ ~EndsWithBrackets(Get(GetDbFields(entity_type)[f], "type", ""))}

\* the step of merge_groups_to_database that merges a group into the stored
\* entity it was reconciled with
MergesIntoExisting ==
    /\ pc = "grouped" /\ gi <= Len(groups) /\ gi' = gi + 1
    /\ ~IsNone(groups[gi].primary_entity_id)

\* C13: a merge into an existing stored entity leaves every non-empty stored
\* scalar under preserve_existing as it is stored.
C13_ScalarPreserved ==
    [][MergesIntoExisting =>
          \A n \in store : \A f \in PreservedScalars(groups[gi].entity_type) :
              (/\ n["name"] = groups[gi].primary_entity_id
               /\ n["type"] = groups[gi].entity_type
               /\ f \in DOMAIN n /\ Truthy(n[f]))
                  => \E n2 \in store' : n2["name"] = n["name"] /\ n2[f] = n[f]]_vars


-----------------------------------------------------------------------------
(* Order of the store calls of a batch                                      *)

\* the step looks a relation up or writes one
RelationStep == ri' # ri \/ relStore' # relStore

\* the step writes an entity group
EntityStep == calls' # calls \/ store' # store

\* C14: on the systematic path a relation is looked up or written only after
\* every entity group of the batch has had its create or merge attempt, and
\* the entity groups are written one per step, in the order of the grouper.
C14_EntitiesBeforeRelations ==
    [][pc = "grouped" =>
          /\ RelationStep =>
                /\ gi > Len(groups) /\ Len(calls) = Len(groups)
                /\ ~EntityStep
          /\ EntityStep =>
                /\ ~RelationStep
                /\ gi <= Len(groups) /\ gi' = gi + 1
                /\ Len(calls') = gi /\ SubSeq(calls', 1, Len(calls)) = calls
                /\ calls'[gi].op = IF IsNone(groups[gi].primary_entity_id)
                                   THEN "create_entity" ELSE "update_entity"]_vars

\* two groups have been written, and then a relation
C14_Witness ==
    /\ pc = "grouped" /\ Len(groups) = 2 /\ Len(calls) = 2
    /\ ri > 1 /\ relStore # <<>>


-----------------------------------------------------------------------------
(* Endpoints of the relations                                               *)

\* every edge of the table Relation joins two nodes of the table Nodes
EndpointsStored(rs, st) ==
    \A i \in 1..Len(rs) : NodeNamed(st, rs[i].src) # {} /\ NodeNamed(st, rs[i].tgt) # {}

\* the relation group that process_relations_systematic handles next, and the
\* endpoints it looks up
NextRelationGroup == RelationGroups(relations_list, entity_mapping)[ri]

NextEndpointStored(name, original) ==
    ~IsNone(GetEntity(store, entity_mapping[original]["entity_type"], name, TRUE))

\* C15: after every step each stored relation joins two stored entities, and
\* process_relations_systematic adds a relation only when the two endpoint
\* entities it names are in the store.
C15_EndpointsStored ==
    [][/\ EndpointsStored(relStore', store')
       /\ (pc = "grouped" /\ Len(relStore') > Len(relStore)) =>
             /\ NextEndpointStored(NextRelationGroup.key[1],
                                   NextRelationGroup.relations[1].source_entity)
             /\ NextEndpointStored(NextRelationGroup.key[2],
                                   NextRelationGroup.relations[1].target_entity)]_vars

\* without any store failure, the creation of a relation was attempted for
\* canonical names one of which is not stored under the mapped type, and no
\* relation was created
C15_Witness ==
    /\ pc = "grouped" /\ failures = 0 /\ relStore = <<>>
    /\ \E i \in 1..Len(rcalls) :
          /\ rcalls[i].op = "create_relation"
          /\ ~(rcalls[i].source_found /\ rcalls[i].target_found)
          /\ ~rcalls[i].created

\* C16: a relation group whose endpoint lookup failed with a store error is
\* not dropped, its creation is attempted; a group is skipped for a missing
\* endpoint only when a lookup that did not fail reported the entity absent.
C16_LookupErrorNotDropped ==
    \A i \in 1..Len(rcalls) :
        rcalls[i].op # "update_relation" =>
            /\ (~rcalls[i].okSource \/ ~rcalls[i].okTarget)
                  => rcalls[i].op = "create_relation"
            /\ rcalls[i].op = "skipped"
                  => \/ rcalls[i].okSource /\ ~rcalls[i].source_found
                     \/ rcalls[i].okTarget /\ ~rcalls[i].target_found

\* the lookup of the source failed and the relation has been created
C16_Witness ==
    \E i \in 1..Len(rcalls) :
        /\ rcalls[i].op = "create_relation" /\ ~rcalls[i].okSource
        /\ rcalls[i].created
        /\ \E e \in 1..Len(relStore) : relStore[e].r.relation_id = rcalls[i].relation_id


-----------------------------------------------------------------------------
(* create_entity as an upsert                                               *)

\* the step is a create_entity call of merge_groups_to_database that the
\* store has answered
CreateAnswered ==
    /\ pc = "grouped" /\ gi <= Len(groups) /\ Len(calls') = gi
    /\ calls'[gi].op = "create_entity" /\ calls'[gi].ok

\* the array properties of a node
ArrayProperties(n) == {f \in DOMAIN n \ {"type"} : IsList(n[f])}

\* C17: create_entity on a primary key that is already stored keeps the
\* stored values of every array field of the node and adds the incoming ones.
C17_UpsertKeepsArrays ==
    [][CreateAnswered =>
          \A n \in NodeNamed(store, calls'[gi].properties["name"].v) :
              \E n2 \in NodeNamed(store', n["name"].v) :
                  \A f \in ArrayProperties(n) :
                      /\ f \in DOMAIN n2
                      /\ Range(n[f].v) \subseteq Range(n2[f].v)
                      /\ f \in DOMAIN calls'[gi].properties
                            => Range(AsList(calls'[gi].properties[f]).v)
                                  \subseteq Range(n2[f].v)]_vars

\* the part of C17 that create_entity provides: rawDescriptions and sources
C17_DescriptionsAndSourcesKept ==
    [][CreateAnswered =>
          \A n \in NodeNamed(store, calls'[gi].properties["name"].v) :
              \E n2 \in NodeNamed(store', n["name"].v) :
                  \A f \in ArrayProperties(n) \cap {"rawDescriptions", "sources"} :
                      f \in DOMAIN n2 /\ Range(n[f].v) \subseteq Range(n2[f].v)]_vars


-----------------------------------------------------------------------------
(* KuzuDBHandler.execute_cypher: one call and the answers of the store to   *)
(* its POSTs.                                                               *)

\* response.raise_for_status() raises HTTPStatusError with this status code
Status(code) == [kind |-> "status", code |-> code]

StatusCodes == {400, 413, 500, 503}

ConnectionErrors == {"ConnectTimeout", "ReadTimeout", "ConnectError"}

\* what a POST of the call can meet: a response that raise_for_status and
\* json() accept, a status error, one of the three connection errors, the
\* cancellation of the task, or any other exception
Answers ==
    {[kind |-> "ok", code |-> 200]}
    \cup {Status(c) : c \in StatusCodes}
    \cup {[kind |-> k, code |-> 0] : k \in ConnectionErrors \cup {"CancelledError", "Exception"}}

\* for attempt in range(max_retries)
InRangeUnbounded(a, m) == TRUE

InRange(a, m) == a < m

\* attempt < max_retries - 1
CanRetry(a, m) == a < m - 1

\* wait_time = (attempt + 1) * 2
WaitTime(a) == (a + 1) * 2

Outcome(to, sets_last_error) == [to |-> to, sets_last_error |-> sets_last_error]

\* every status error is retried like a server error
StatusOutcomeRetryAll(code, a, m) ==
    IF CanRetry(a, m) THEN Outcome("sleep", TRUE) ELSE Outcome("next", TRUE)

\* except httpx.HTTPStatusError
StatusOutcome(code, a, m) ==
    IF code = 413 THEN Outcome("raised", TRUE)
    ELSE IF code >= 500
    THEN IF CanRetry(a, m) THEN Outcome("sleep", TRUE) ELSE Outcome("next", TRUE)
    ELSE Outcome("raised", TRUE)

\* the body of the loop for one answer: return, raise, sleep and continue,
\* or fall out of the try statement into the next iteration
Handle(answer, a, m) ==
    IF answer.kind = "ok" THEN Outcome("returned", FALSE)
    ELSE IF answer.kind = "status" THEN StatusOutcome(answer.code, a, m)
    ELSE IF answer.kind \in ConnectionErrors
    THEN IF CanRetry(a, m) THEN Outcome("sleep", TRUE) ELSE Outcome("raised", TRUE)
    ELSE IF answer.kind = "CancelledError" THEN Outcome("raised", FALSE)
    ELSE Outcome("raised", TRUE)

\* the position after an iteration that neither returned nor raised
NextIteration(a, m) == IF InRange(a + 1, m) THEN "post" ELSE "after_loop"

\* execute_cypher is called
ExecuteCypher(m) ==
    /\ cy = "idle"
    /\ max_retries' = m
    /\ attempt' = 0
    /\ last_error' = NoError
    /\ cy' = IF InRange(0, m) THEN "post" ELSE "after_loop"
    /\ UNCHANGED <<responses, slept, error>>
    /\ UNCHANGED <<pvars, workers, closure>>

\* one POST of the call and the handling of its answer
Post(answer) ==
    /\ cy = "post"
    /\ Len(responses) < MaxPosts
    /\ responses' = Append(responses, answer)
    /\ \E h \in {Handle(answer, attempt, max_retries)} :
          /\ last_error' = IF h.sets_last_error THEN answer ELSE last_error
          /\ cy' = IF h.to = "next" THEN NextIteration(attempt, max_retries) ELSE h.to
          /\ attempt' = IF h.to = "next" THEN attempt + 1 ELSE attempt
          /\ error' = IF h.to = "raised" THEN answer ELSE error
    /\ UNCHANGED <<max_retries, slept>>
    /\ UNCHANGED <<pvars, workers, closure>>

\* await asyncio.sleep(wait_time); continue
Sleep ==
    /\ cy = "sleep"
    /\ slept' = Append(slept, WaitTime(attempt))
    /\ attempt' = attempt + 1
    /\ cy' = NextIteration(attempt, max_retries)
    /\ UNCHANGED <<max_retries, last_error, responses, error>>
    /\ UNCHANGED <<pvars, workers, closure>>

\* the statements after the loop
AfterLoop ==
    /\ cy = "after_loop"
    /\ cy' = "raised"
    /\ error' = IF last_error # NoError THEN last_error
                ELSE [kind |-> "Exception", code |-> 0]
    /\ UNCHANGED <<max_retries, attempt, last_error, responses, slept>>
    /\ UNCHANGED <<pvars, workers, closure>>

CInit ==
    /\ RInit
    /\ CypherIdle

CNext ==
    \/ \E m \in 0..MaxRetries : ExecuteCypher(m)
    \/ \E answer \in Answers : Post(answer)
    \/ Sleep
    \/ AfterLoop

SpecCypher == CInit /\ [][CNext]_vars

\* every request is answered or times out (the client is built with connect
\* and read timeouts) and every sleep ends
SpecCypherFair == SpecCypher /\ WF_vars(CNext)

\* C18: an answer 413 ends the call at once: the error is raised by the
\* attempt that met it, which is followed by no wait and no further attempt;
\* a 413 on the first attempt leaves exactly one attempt and no wait.
C18_NoRetryOn413 ==
    \A i \in 1..Len(responses) :
        responses[i] = Status(413) =>
            /\ i = Len(responses)
            /\ cy = "raised" /\ error = Status(413)
            /\ Len(slept) = i - 1

\* the first POST of a call with three attempts allowed was answered 413
C18_Witness ==
    /\ cy = "raised" /\ max_retries = 3
    /\ responses = <<Status(413)>> /\ slept = <<>> /\ error = Status(413)

\* the answer is one of the errors that execute_cypher retries
Transient(answer) ==
    \/ answer.kind = "status" /\ answer.code >= 500
    \/ answer.kind \in ConnectionErrors

Finished == cy \in {"returned", "raised"}

\* the safety part of C19
RetriesBounded ==
    /\ Len(responses) <= max_retries
    /\ \A i \in 1..Len(responses) :
          responses[i].kind = "ok" => i = Len(responses) /\ cy = "returned"
    /\ cy = "returned" => responses # <<>> /\ responses[Len(responses)].kind = "ok"
    /\ \A i \in 1..(Len(responses) - 1) : Transient(responses[i])
    /\ (cy = "raised" /\ responses # <<>> /\ Transient(responses[Len(responses)]))
          => Len(responses) = max_retries /\ error = responses[Len(responses)]

\* C19: a call makes at most max_retries attempts, retries only after a
\* transient error, returns at the first successful attempt, raises the last
\* error after the last failed attempt, and always ends.
C19_BoundedRetries ==
    /\ []RetriesBounded
    /\ (cy # "idle") ~> Finished

\* three transient errors in a row, and the last one raised
C19_Witness ==
    /\ cy = "raised" /\ max_retries = 3 /\ Len(responses) = 3
    /\ \A i \in 1..3 : Transient(responses[i])
    /\ error = responses[3] /\ Len(slept) = 2


-----------------------------------------------------------------------------
(* Relations that name an entity outside the canonical map                 *)

\* relations_processed, the value process_relations_systematic returns: one
\* for every group that was updated and one for every create_relation that
\* answered with a result
RelationsProcessed(rc) ==
    Cardinality({i \in 1..Len(rc) :
                    \/ rc[i].op = "update_relation"
                    \/ rc[i].op = "create_relation" /\ rc[i].created})

\* the endpoints of the relation are keys of the canonical map
EndpointsMapped(rel_data) ==
    /\ rel_data.source_entity \in DOMAIN entity_mapping
    /\ rel_data.target_entity \in DOMAIN entity_mapping

\* the positions of relations_list that step 1 skips
SkippedRelations == {i \in 1..Len(relations_list) : ~EndpointsMapped(relations_list[i])}

\* C21: a relation whose source or target name is not a key of the canonical
\* map is skipped: it belongs to no relation group, every store call of the
\* relation loop is issued for a group of relations whose endpoints are
\* mapped, and the processed count stays below the number of input relations
C21_UnmappedSkipped ==
    (pc = "grouped" /\ GroupsMerged) =>
        LET rgs == RelationGroups(relations_list, entity_mapping)
        IN  /\ \A g \in 1..Len(rgs) :
                   \A k \in 1..Len(rgs[g].relations) : EndpointsMapped(rgs[g].relations[k])
            /\ Len(rcalls) <= Len(relations_list) - Cardinality(SkippedRelations)
            /\ \A c \in 1..Len(rcalls) :
                   \E i \in 1..Len(relations_list) :
                      /\ i \notin SkippedRelations
                      /\ rcalls[c].relation_id =
                            GenerateRelationId(
                                CanonicalName(entity_mapping, relations_list[i].source_entity),
                                CanonicalName(entity_mapping, relations_list[i].target_entity),
                                relations_list[i].relationship_type)
            /\ SkippedRelations # {} => RelationsProcessed(rcalls) < Len(relations_list)

\* a batch whose relation loop has ended with one relation skipped and
\* another one stored
C21_Witness ==
    /\ pc = "grouped"
    /\ GroupsMerged
    /\ ri > Len(RelationGroups(relations_list, entity_mapping))
    /\ SkippedRelations # {}
    /\ RelationsProcessed(rcalls) >= 1
    /\ \E i \in SkippedRelations : relations_list[i].source_entity \in DOMAIN entity_mapping


-----------------------------------------------------------------------------
(* Rules on a field that the live schema does not have                     *)

\* the storage field of the rule is a field of the schema of the type
RuleFieldInSchema(rule, entity_type) ==
    Get(rule, "db", Get(rule, "match", "")) \in DOMAIN EntitySchemas(entity_type)

\* the rules of the type in priority order, and those of them whose storage
\* field is in the schema
RulesInOrder(entity_type) == SortedRules(GetSystematicMergeRules(entity_type))

RulesInSchema(entity_type) ==
    LET InSchema(rule) == RuleFieldInSchema(rule, entity_type)
    IN  SelectSeq(RulesInOrder(entity_type), InSchema)

\* what step 4 has recorded for the group: the entity found, or None
FoundFor(group) ==
    IF IsNone(group.primary_entity_id) THEN None ELSE group.primary_entity_data

\* C22: a rule whose storage field is absent from the schema of the entity
\* type neither raises nor issues a query, and the lookup goes on with the
\* next rule: it finds what the rules without the skipped ones find, and
\* that is what step 4 records for every group
C22_AbsentFieldRuleSkipped ==
    (pc = "grouped" /\ gi = 1) =>
        \A i \in 1..Len(groups) :
           LET entity_type == groups[i].entity_type
               attributes == groups[i].items[1].attributes
               rs == RulesInOrder(entity_type)
           IN  /\ \A k \in 1..Len(rs) :
                      ~RuleFieldInSchema(rs[k], entity_type) =>
                         /\ ~RuleIssuesQuery(rs[k], entity_type, attributes)
                         /\ ~RuleRaises(rs[k], entity_type, attributes)
                         /\ RuleQueryRows(rs[k], entity_type, attributes) = {}
               /\ FindExistingEntitySystematic(entity_type, attributes)
                     = FirstRows(RulesInSchema(entity_type), entity_type, attributes)
               /\ FoundFor(groups[i])
                     \in FirstRows(RulesInSchema(entity_type), entity_type, attributes)

\* a group whose first rule is on a field absent from the schema and which
\* the next rule has matched with a stored entity
C22_Witness ==
    /\ pc = "grouped"
    /\ gi = 1
    /\ \E i \in 1..Len(groups) :
          /\ RulesInOrder(groups[i].entity_type) # <<>>
          /\ ~RuleFieldInSchema(RulesInOrder(groups[i].entity_type)[1],
                                groups[i].entity_type)
          /\ "email" \in DOMAIN groups[i].items[1].attributes
          /\ ~IsNone(FoundFor(groups[i]))


-----------------------------------------------------------------------------
(* Statistics of merge_groups_to_database                                  *)

\* stats, as merge_groups_to_database returns it after the calls cs issued
\* for the first Len(cs) groups of gs: a merged group adds the number of its
\* items to entities_merged, a created group adds one to entities_created
\* and the number of its items to entities_processed, and a group whose
\* write returned None adds to groups_processed only
MergeStats(gs, cs) ==
    LET Written(op) == {i \in 1..Len(cs) : cs[i].op = op /\ cs[i].ok}
        ItemsOf(S) == Cardinality({<<i, k>> \in S \X (1..MaxBatch + 1) :
                                      k <= Len(gs[i].items)})
    IN  [entities_processed |-> ItemsOf(Written("create_entity")),
         entities_created |-> Cardinality(Written("create_entity")),
         entities_merged |-> ItemsOf(Written("update_entity")),
         groups_processed |-> Len(cs)]

\* the groups of the batch whose write returned None
FailedGroups == {i \in 1..Len(calls) : ~calls[i].ok}

\* C23: when merge_groups_to_database returns, groups_processed is the
\* number of groups of the batch, and the groups that are neither counted as
\* created nor as merged are the failed ones, so that the three counts sum
\* to groups_processed
C23_StatsTellOutcomes ==
    (pc = "grouped" /\ GroupsMerged) =>
        LET stats == MergeStats(groups, calls)
        IN  /\ stats.groups_processed = Len(groups)
            /\ stats.entities_created + stats.entities_merged + Cardinality(FailedGroups)
                  = stats.groups_processed

\* groups_processed alone is the number of groups of the batch
C23_GroupsCounted ==
    (pc = "grouped" /\ GroupsMerged) =>
        MergeStats(groups, calls).groups_processed = Len(groups)


-----------------------------------------------------------------------------
(* The groups as a partition of the valid records                          *)

\* the places <<g, k>> of the groups gs that hold the record at position i
PlacesOf(gs, i) ==
    {<<g, k>> \in (1..Len(gs)) \X (1..Len(batch)) :
        k <= Len(gs[g].items) /\ gs[g].items[k].batch_id = i - 1}

\* the names the canonical map may hold: those of the valid records and
\* those of the stored entities the groups were reconciled with
ValidNames ==
    {batch[i].entity_name : i \in ValidIdx(batch)}
    \cup {groups[g].primary_entity_data["name"].v :
             g \in {h \in 1..Len(groups) : ~IsNone(groups[h].primary_entity_id)}}

\* C24: the groups partition the valid records of the batch: every record
\* with a type and a name is in exactly one group, no group is empty, every
\* item of a group is a valid record of the type of the group, and a record
\* without its type or its name is in no group and is no key of the
\* canonical map
C24_GroupsPartitionValid ==
    pc = "grouped" =>
        /\ \A i \in ValidIdx(batch) : Cardinality(PlacesOf(groups, i)) = 1
        /\ \A i \in (1..Len(batch)) \ ValidIdx(batch) : PlacesOf(groups, i) = {}
        /\ \A g \in 1..Len(groups) :
              /\ groups[g].items # <<>>
              /\ \A k \in 1..Len(groups[g].items) :
                    /\ groups[g].items[k].batch_id + 1 \in ValidIdx(batch)
                    /\ groups[g].items[k]
                          = ItemOf(batch, groups[g].items[k].batch_id + 1)
                    /\ groups[g].items[k].entity_type = groups[g].entity_type
        /\ DOMAIN entity_mapping \subseteq ValidNames

\* a batch with a record that lacks its type, with groups of two types, all
\* of them written
C24_Witness ==
    /\ pc = "grouped"
    /\ GroupsMerged
    /\ \E i \in 1..Len(batch) : batch[i].entity_type = "" /\ batch[i].entity_name # <<>>
    /\ \E g, h \in 1..Len(groups) : groups[g].entity_type # groups[h].entity_type
    /\ DOMAIN entity_mapping # {}


-----------------------------------------------------------------------------
(* The reconciler returns the first hit in priority order                  *)

\* the rules rs are the configured rules of the type in ascending priority
AscendingPriority(rs, entity_type) ==
    /\ Len(rs) = Len(GetSystematicMergeRules(entity_type))
    /\ Range(rs) = Range(GetSystematicMergeRules(entity_type))
    /\ \A a, b \in 1..Len(rs) : a < b => RulePriority(rs[a]) <= RulePriority(rs[b])

\* existing_entity is a row of the first rule of rs whose query returns
\* rows for the attributes in the store st, and None when there is none
FirstHit(rs, entity_type, attributes, existing_entity) ==
    LET Rows(k) == RuleQueryRows(rs[k], entity_type, attributes)
        hits == {k \in 1..Len(rs) : Rows(k) # {}}
    IN  IF hits = {} THEN IsNone(existing_entity)
        ELSE \E k \in hits : /\ \A h \in hits : k <= h
                              /\ existing_entity \in Rows(k)

\* C25: step 4 ends without error for every batch, and has then recorded
\* for each group the first stored entity that the rules of the type, taken
\* in ascending priority, find for the first item of the group, and nothing
\* when no rule finds one or the type has no rule
C25_FirstHitOrNotFound ==
    [][(pc = "input" /\ pc' # "input") =>
          /\ pc' = "grouped"
          /\ \A i \in 1..Len(groups') :
                /\ AscendingPriority(RulesInOrder(groups'[i].entity_type),
                                     groups'[i].entity_type)
                /\ FirstHit(RulesInOrder(groups'[i].entity_type),
                            groups'[i].entity_type, groups'[i].items[1].attributes,
                            FoundFor(groups'[i]))]_vars

\* a group without a stored entity takes the create path, a group with one
\* the update path
C25_NotFoundCreates ==
    \A i \in 1..Len(calls) :
        calls[i].op = IF IsNone(FoundFor(groups[i])) THEN "create_entity"
                      ELSE "update_entity"


-----------------------------------------------------------------------------
(* Batches processed side by side: each worker runs process_batch_systematic *)
(* for a batch of one record against the same store.  A step is one store   *)
(* query; the queries of a worker are issued in program order, those of     *)
(* different workers in any order.  No store call fails here.               *)

Workers == {1, 2}

\* the provenance id of the batch of the worker
WorkerSource(w) == IF w = 1 THEN <<"s", "1">> ELSE <<"s", "2">>

\* the records a worker's batch is drawn from: three that are reconciled
\* with the stored Person j and one that is not
WorkerRecords ==
    { EntityData("Person", <<"j">>, Dict1("description", Str(D2))),
      EntityData("Person", <<"j">>, Dict1("description", Str(D3))),
      EntityData("Person", <<"J">>, Dict1("aliases", Lst(<< <<"a">> >>))),
      EntityData("Person", <<"k">>, Dict1("description", Str(D2))) }

\* a worker that has received its batch; stale is not a value of the
\* program: it records that another worker has written the entity after
\* this worker has read it
NewWorker(w, entity_data) ==
    [at |-> "received", entity_data |-> entity_data, source_item_id |-> WorkerSource(w),
     group |-> None, properties |-> << >>, current_entity |-> None, result |-> None,
     stale |-> FALSE]

KInit ==
    /\ rules = Dict1("Person", <<ExactNameRule(1)>>)
    /\ pc = "idle"
    /\ batch = <<>>
    /\ groups = <<>>
    /\ store = {StoredEntity}
    /\ source_item_id = <<>>
    /\ relations_list = <<>>
    /\ gi = 1
    /\ ri = 1
    /\ entity_mapping = << >>
    /\ calls = <<>>
    /\ rcalls = <<>>
    /\ relStore = <<>>
    /\ prev = [batch |-> <<>>, source_item_id |-> <<>>, store |-> store, relStore |-> <<>>,
               calls |-> <<>>]
    /\ nbatches = 0
    /\ failures = 0
    /\ CypherIdle
    /\ \E records \in [Workers -> WorkerRecords] :
          workers = [w \in Workers |-> NewWorker(w, records[w])]
    /\ closure = ClosureIdle

\* process_entities_systematic and the part of merge_groups_to_database
\* before the store is written: the group of the record is reconciled with
\* the store (one query) and the properties of the write are computed
WorkerMatchGroup(w) ==
    /\ workers[w].at = "received"
    /\ \E gs \in {GroupEntities(<<workers[w].entity_data>>)} :
          \E existing_entity \in FindExistingEntitySystematic(
                                     gs[1].entity_type, gs[1].items[1].attributes) :
             \E group \in {MatchGroupWithDatabase(gs[1], existing_entity)} :
                IF Truthy(group.primary_entity_id)
                THEN \E update_attributes \in
                           {MergeGroupIntoExisting(group, workers[w].source_item_id)} :
                        workers' =
                           [workers EXCEPT
                              ![w].group = group,
                              ![w].properties = update_attributes,
                              ![w].at =
                                 IF ArrayFieldsToAppend(group.entity_type,
                                                        update_attributes) = << >>
                                 THEN "set" ELSE "get"]
                ELSE workers' =
                        [workers EXCEPT
                           ![w].group = group,
                           ![w].properties =
                              CreateEntityFromGroup(group, workers[w].source_item_id),
                           ![w].at = "create"]
    /\ UNCHANGED <<pvars, cvars, closure>>

\* update_entity: "Fetch current entity to get existing array values"
WorkerGetEntity(w) ==
    /\ workers[w].at = "get"
    /\ workers' = [workers EXCEPT
                      ![w].current_entity =
                         GetEntity(store, workers[w].group.entity_type,
                                   workers[w].group.primary_entity_id.v, TRUE),
                      ![w].at = "set"]
    /\ UNCHANGED <<pvars, cvars, closure>>

\* update_entity: the SET query, with the arrays merged from what was fetched
WorkerSetEntity(w) ==
    /\ workers[w].at = "set"
    /\ \E written \in
            {SetEntity(store, workers[w].group.entity_type,
                       workers[w].group.primary_entity_id.v,
                       UpdateSetParams(workers[w].group.entity_type,
                                       workers[w].properties,
                                       workers[w].current_entity),
                       TRUE)} :
          /\ store' = written.store
          /\ workers' =
                [v \in Workers |->
                    IF v = w
                    THEN [workers[w] EXCEPT !.result = written.result, !.at = "done"]
                    ELSE IF /\ workers[v].at = "set"
                            /\ workers[v].group.primary_entity_id
                                  = workers[w].group.primary_entity_id
                         THEN [workers[v] EXCEPT !.stale = TRUE]
                         ELSE workers[v]]
    /\ UNCHANGED <<rules, pc, batch, groups, source_item_id, relations_list, gi, ri,
                   entity_mapping, calls, rcalls, relStore, prev, nbatches, failures>>
    /\ UNCHANGED <<cvars, closure>>

\* create_entity: the MERGE query
WorkerCreateEntity(w) ==
    /\ workers[w].at = "create"
    /\ \E written \in {CreateEntity(store, workers[w].group.entity_type,
                                     workers[w].properties, TRUE)} :
          /\ store' = written.store
          /\ workers' = [workers EXCEPT ![w].result = written.result, ![w].at = "done"]
    /\ UNCHANGED <<rules, pc, batch, groups, source_item_id, relations_list, gi, ri,
                   entity_mapping, calls, rcalls, relStore, prev, nbatches, failures>>
    /\ UNCHANGED <<cvars, closure>>

KNext ==
    \E w \in Workers :
       \/ WorkerMatchGroup(w)
       \/ WorkerGetEntity(w)
       \/ WorkerSetEntity(w)
       \/ WorkerCreateEntity(w)

SpecConcurrent == KInit /\ [][KNext]_vars

\* the stored entity the worker has written to
WorkerEntity(w) ==
    NodeNamed(store, IF Truthy(workers[w].group.primary_entity_id)
                     THEN workers[w].group.primary_entity_id.v
                     ELSE workers[w].properties["name"].v)

\* every value the worker has sent for an array field is in the stored array
WorkerValuesStored(w) ==
    LET sent == ArrayFieldsToAppend(workers[w].group.entity_type, workers[w].properties)
    IN  \A n \in WorkerEntity(w) :
           \A f \in DOMAIN sent :
              \A k \in 1..Len(sent[f]) :
                 f \in DOMAIN n /\ \E h \in 1..Len(n[f].v) : n[f].v[h] = sent[f][k]

AllWorkersDone == workers # << >> /\ \A w \in DOMAIN workers : workers[w].at = "done"

\* C26: when the batches of two workers have merged values into array
\* fields of the same stored entity, the stored arrays hold every value
\* that either of them has sent, in every order of their store queries
C26_NoLostUpdate ==
    AllWorkersDone => \A w \in DOMAIN workers : WorkerValuesStored(w)

\* nothing is lost when no worker writes between the read and the write of
\* another one
C26_SerialKeepsAll ==
    (AllWorkersDone /\ \A w \in DOMAIN workers : ~workers[w].stale)
        => \A w \in DOMAIN workers : WorkerValuesStored(w)


-----------------------------------------------------------------------------
(* The canonical map after merge_groups_to_database                        *)

\* the entry of the canonical map for the name gives the type of the group
\* and the primary key of the entity the group was written to
MappedTo(name, group) ==
    /\ name \in DOMAIN entity_mapping
    /\ entity_mapping[name]["entity_type"] = group.entity_type
    /\ entity_mapping[name]["entity_id"] = WrittenName(group)

\* C27: when merge_groups_to_database has returned, the canonical map
\* gives, for every record of a group that was written, the type of the
\* record and the primary key of the stored entity of its group
C27_MappingOfWrittenGroups ==
    (pc = "grouped" /\ GroupsMerged) =>
        \A g \in 1..Len(groups) :
           calls[g].ok =>
              \A k \in 1..Len(groups[g].items) :
                 MappedTo(groups[g].items[k].entity_name, groups[g])

\* the same for the batches in which no name is carried by records of two
\* groups
C27_NamesOfOneGroup ==
    (/\ pc = "grouped" /\ GroupsMerged
     /\ \A g, h \in 1..Len(groups) :
           g # h => ItemNames(groups[g]) \cap ItemNames(groups[h]) = {}) =>
        \A g \in 1..Len(groups) :
           calls[g].ok =>
              \A k \in 1..Len(groups[g].items) :
                 MappedTo(groups[g].items[k].entity_name, groups[g])


-----------------------------------------------------------------------------
(* The arrays of a stored relation                                         *)

\* C28: a stored relation holds every provenance id once, and its
\* description, relationTag and permissions hold no value twice, however
\* often its relation group has been consolidated
C28_RelationArraysUnique ==
    \A i \in 1..Len(relStore) :
        /\ NoDuplicates(relStore[i].r.sources)
        /\ NoDuplicates(relStore[i].r.description)
        /\ NoDuplicates(relStore[i].r.relationTag)
        /\ NoDuplicates(relStore[i].r.permissions)

\* the arrays that the provider merges itself hold no value twice, and the
\* provenance id of the batch is in sources
C28_MergedArraysUnique ==
    \A i \in 1..Len(relStore) :
        /\ NoDuplicates(relStore[i].r.description)
        /\ NoDuplicates(relStore[i].r.relationTag)
        /\ NoDuplicates(relStore[i].r.permissions)
        /\ relStore[i].r.sources # <<>>

-----------------------------------------------------------------------------
(* create_entity and the entities of other types                           *)

\* merge_groups_to_database has just called create_entity for the group gi
CreateEntityCalled ==
    /\ Len(calls') = Len(calls) + 1
    /\ calls'[Len(calls')].op = "create_entity"

\* C29: create_entity for the type T and the name N changes only the stored
\* entity of type T named N: a stored entity of another type keeps its type
\* and every attribute, also when its name is N.
C29_CreateKeepsOtherTypes ==
    [][CreateEntityCalled =>
          \A n \in store : n["type"] # groups[gi].entity_type => n \in store']_vars

\* create_entity leaves every stored entity of another name as it is
C29_CreateKeepsOtherNames ==
    [][CreateEntityCalled =>
          \A n \in store : n["name"].v # groups[gi].items[1].entity_name => n \in store']_vars

-----------------------------------------------------------------------------
(* The update of _merge_group_into_existing                                *)

\* merge_groups_to_database has just called update_entity for the group gi
UpdateEntityCalled ==
    /\ Len(calls') = Len(calls) + 1
    /\ calls'[Len(calls')].op = "update_entity"

\* the field is in the update with the value the existing entity holds
SentUnchanged(update_attributes, primary_entity, field) ==
    /\ field \in DOMAIN update_attributes
    /\ field \in DOMAIN primary_entity
    /\ field # "type"
    /\ update_attributes[field] = primary_entity[field]

\* C30: the update of _merge_group_into_existing holds only fields whose merged
\* value differs from the value of the existing entity, and never the name.
C30_UpdateOnlyChanged ==
    [][UpdateEntityCalled =>
          /\ "name" \notin DOMAIN calls'[Len(calls')].properties
          /\ \A field \in DOMAIN calls'[Len(calls')].properties :
                ~SentUnchanged(calls'[Len(calls')].properties,
                               groups[gi].primary_entity_data, field)]_vars

\* the primary key is never part of the update
C30_NameNeverUpdated ==
    [][UpdateEntityCalled => "name" \notin DOMAIN calls'[Len(calls')].properties]_vars

-----------------------------------------------------------------------------
(* Cancellation of a batch while a store call of merge_groups_to_database  *)
(* is in flight.  The handler's return annotation tuple[...] needs Python  *)
(* 3.9, where asyncio.CancelledError derives from BaseException.           *)

\* the frames an exception of a group's store call passes on its way out, each
\* with an "except Exception" handler: the handler method (returns None), the
\* group loop of merge_groups_to_database (fallback mapping, next group) and
\* process_batch_systematic (legacy process_batch)
GroupCallFrames == <<"handler", "merge_groups_to_database", "process_batch_systematic">>

\* the frame whose handler takes the exception that execute_cypher has raised,
\* "none" when it leaves process_batch_systematic
CaughtAt(kind) ==
    IF Handle([kind |-> kind, code |-> 0], 0, 1).to # "raised" THEN "execute_cypher"
    ELSE IF IsException(kind) THEN GroupCallFrames[1]
    ELSE "none"

\* the task is cancelled while the store call of the group gi is awaited
CancelGroupCall ==
    /\ pc = "grouped"
    /\ gi <= Len(groups)
    /\ calls' = Append(calls, [op |-> "cancelled", properties |-> << >>, ok |-> FALSE])
    /\ IF CaughtAt("CancelledError") = "none"
       THEN /\ pc' = "cancelled"
            /\ UNCHANGED <<gi, entity_mapping>>
       ELSE \* the handler method returns None and the group loop goes on
            /\ pc' = pc
            /\ gi' = gi + 1
            /\ entity_mapping' =
                  IF Truthy(groups[gi].primary_entity_id)
                  THEN Merge(entity_mapping, FailedMergeMapping(groups[gi]))
                  ELSE entity_mapping
    /\ UNCHANGED <<rules, batch, groups, store, source_item_id, relations_list, ri, rcalls,
                   relStore, prev, nbatches, failures>>
    /\ UNCHANGED <<cvars, workers, closure>>

XNext ==
    \/ \E rels \in RelationLists, s \in SourceIds : ReceiveBatch(RelationEntities, rels, s)
    \/ ProcessEntitiesSystematic
    \/ MergeGroup
    \/ CancelGroupCall
    \/ ProcessRelationGroup
    \/ FinishBatch

SpecCancel == RInit /\ [][XNext]_vars

\* C31: a cancellation during the store call of an entity group is not
\* swallowed: it leaves the batch call, the group loop does not go on, and no
\* relation of the batch is looked up or written.
C31_CancelAbandonsBatch ==
    \A i \in 1..Len(calls) :
        calls[i].op = "cancelled" =>
            /\ pc = "cancelled"
            /\ i = Len(calls)
            /\ gi = i
            /\ rcalls = <<>>

\* a batch with relations, cancelled at its second group after the first
\* group has been written
C31_Witness ==
    /\ pc = "cancelled"
    /\ Len(calls) = 2
    /\ calls[1].ok
    /\ relations_list # <<>>

\* once cancelled, the batch writes nothing more
C31_NothingAfterCancel ==
    [][pc = "cancelled" => UNCHANGED <<store, relStore, rcalls, calls>>]_vars

-----------------------------------------------------------------------------
(* Matching specification: batches of records whose rule fields are absent, *)
(* null, empty or set, grouped under rule lists in and out of priority      *)
(* order.                                                                   *)

MatchExtras ==
    << << >>,
       Dict1("email", None),
       Dict1("email", Str(<<>>)),
       Dict1("email", Lst(<<>>)),
       Dict1("email", Str(<<"E", " ">>)),
       Dict1("emails", Lst(<< <<"e">> >>)),
       Dict1("emails", Lst(<<>>)) >>

\* Person records j and k with each of the extras, and Team records (no rule
\* is configured for Team) whose names differ in case and in a trailing blank
MatchRecords ==
    [i \in 1..14 |-> EntityData("Person", GroupingNames[((i - 1) \div 7) + 1],
                                MatchExtras[((i - 1) % 7) + 1])]
    \o << EntityData("Team", <<"j">>, << >>),
          EntityData("Team", <<"J", " ">>, << >>),
          EntityData("Team", <<"k">>, << >>),
          EntityData("Team", <<>>, << >>) >>

MatchRecordIndex(r) == CHOOSE k \in 1..Len(MatchRecords) : MatchRecords[k] = r

MatchRuleConfigs ==
    {Dict1("Person", rl) :
        rl \in { <<>>,
                 <<ExactNameRule(1), SearchEmailRule(2)>>,
                 <<SearchEmailRule(2), ExactNameRule(1)>>,
                 <<ExactEmailRule, ExactNameRule(1)>>,
                 <<ExactEmailRule, SearchEmailRule(1)>> }}

MInit ==
    /\ rules \in MatchRuleConfigs
    /\ pc = "input"
    /\ batch = <<>>
    /\ groups = <<>>
    /\ store = {}
    /\ source_item_id = <<>>
    /\ relations_list = <<>>
    /\ gi = 1
    /\ ri = 1
    /\ entity_mapping = << >>
    /\ calls = <<>>
    /\ rcalls = <<>>
    /\ relStore = <<>>
    /\ prev = [batch |-> <<>>, source_item_id |-> <<>>, store |-> {}, relStore |-> <<>>,
               calls |-> <<>>]
    /\ nbatches = 0
    /\ failures = 0
    /\ CypherIdle
    /\ workers = << >>
    /\ closure = ClosureIdle

\* the next record of the batch
ReceiveRecord(r) ==
    /\ pc = "input"
    /\ Len(batch) < MaxBatch
    /\ batch # <<>> => MatchRecordIndex(batch[Len(batch)]) <= MatchRecordIndex(r)
    /\ batch' = Append(batch, r)
    /\ UNCHANGED <<rules, pc, groups, store>>
    /\ UNCHANGED mvars

MNext ==
    \/ \E r \in Range(MatchRecords) : ReceiveRecord(r)
    \/ ProcessEntitiesSystematic
    \/ ProcessEntitiesRaises

SpecMatch == MInit /\ [][MNext]_vars

\* the pairs of records of the batch that _entities_match compares by rules
RulePairs ==
    {p \in (1..Len(batch)) \X (1..Len(batch)) :
        /\ batch[p[1]].entity_type = batch[p[2]].entity_type
        /\ GetSystematicMergeRules(batch[p[1]].entity_type) # <<>>}

\* ... and by the fallback
FallbackPairs ==
    {p \in (1..Len(batch)) \X (1..Len(batch)) :
        /\ batch[p[1]].entity_type = batch[p[2]].entity_type
        /\ GetSystematicMergeRules(batch[p[1]].entity_type) = <<>>}

\* the rule fires on the pair
Fires(rule, p) == ApplyRule(rule, batch[p[1]].attributes, batch[p[2]].attributes).matches

\* rule r1 is evaluated before rule r2: a rule without priority is last
PriorityBefore(r1, r2) ==
    /\ "priority" \in DOMAIN r1
    /\ "priority" \in DOMAIN r2 => r1["priority"] < r2["priority"]

\* C32: _entities_match returns the confidence and the reason of the firing
\* rule of lowest priority number (a rule without priority last), whatever the
\* later rules would give, and no match when no rule fires.
C32_FirstFiringRuleWins ==
    \A p \in RulePairs :
        LET rs == GetSystematicMergeRules(batch[p[1]].entity_type)
            firing == {k \in 1..Len(rs) : Fires(rs[k], p)}
            result == EntitiesMatch(ItemOf(batch, p[1]), ItemOf(batch, p[2]))
        IN  IF firing = {} THEN result = NoMatch
            ELSE \E k \in firing :
                    /\ \A m \in firing : ~PriorityBefore(rs[m], rs[k])
                    /\ result = ApplyRule(rs[k], batch[p[1]].attributes,
                                          batch[p[2]].attributes)

\* two rules of different confidence fire on a pair, and the one that is first
\* in the configuration is not the one of lowest priority number
C32_Witness ==
    /\ pc = "grouped"
    /\ \E p \in RulePairs :
          LET rs == GetSystematicMergeRules(batch[p[1]].entity_type)
          IN  /\ Len(rs) = 2
              /\ Fires(rs[1], p) /\ Fires(rs[2], p)
              /\ PriorityBefore(rs[2], rs[1])
              /\ rs[1]["confidence"] # rs[2]["confidence"]

-----------------------------------------------------------------------------
(* Match rules and missing values                                          *)

\* the field is absent, null or empty in the record
FieldMissing(attrs, field) ==
    \/ field \notin DOMAIN attrs
    \/ IsNone(attrs[field])
    \/ attrs[field].v = <<>>

\* the exact rule fires on the pair though the field is missing in a record
ExactFiresOnMissing(rule, p) ==
    /\ p[1] # p[2]
    /\ Get(rule, "rule", "") = "exact"
    /\ \/ FieldMissing(batch[p[1]].attributes, Get(rule, "match", ""))
       \/ FieldMissing(batch[p[2]].attributes, Get(rule, "match", ""))
    /\ Fires(rule, p)

\* the search rule finds a search value in a list though the search value is
\* missing in both records
SearchFiresOnMissing(rule, p) ==
    /\ p[1] # p[2]
    /\ Get(rule, "rule", "") = "search"
    /\ FieldMissing(batch[p[1]].attributes, Get(rule, "match", ""))
    /\ FieldMissing(batch[p[2]].attributes, Get(rule, "match", ""))
    /\ Fires(rule, p)
    /\ ApplyRule(rule, batch[p[1]].attributes, batch[p[2]].attributes).reason
          # "overlap_" \o Get(rule, "db", Get(rule, "match", ""))

\* C33: a rule fires only on a real shared value: an exact rule does not fire
\* when its field is absent, empty or null in either record, and a search rule
\* does not fire through an absent, empty or null search value.
C33_RulesNeedValue ==
    \A p \in RulePairs :
        \A k \in 1..Len(GetSystematicMergeRules(batch[p[1]].entity_type)) :
            /\ ~ExactFiresOnMissing(GetSystematicMergeRules(batch[p[1]].entity_type)[k], p)
            /\ ~SearchFiresOnMissing(GetSystematicMergeRules(batch[p[1]].entity_type)[k], p)

\* the field is absent or the empty string in the record
FieldAbsentOrBlank(attrs, field) ==
    field \notin DOMAIN attrs \/ attrs[field] = Str(<<>>)

\* an exact rule does not fire when its field is absent or the empty string
\* in either record
C33_ExactNeedsText ==
    \A p \in RulePairs :
        \A k \in 1..Len(GetSystematicMergeRules(batch[p[1]].entity_type)) :
            LET rule == GetSystematicMergeRules(batch[p[1]].entity_type)[k]
            IN  /\ Get(rule, "rule", "") = "exact"
                /\ \/ FieldAbsentOrBlank(batch[p[1]].attributes, Get(rule, "match", ""))
                   \/ FieldAbsentOrBlank(batch[p[2]].attributes, Get(rule, "match", ""))
                => ~Fires(rule, p)

-----------------------------------------------------------------------------
(* The text that _generate_relation_id hashes                              *)

\* the keys (source id, target id, relation type) of the relation groups of
\* the batch
RelationKeys ==
    {RelationGroups(relations_list, entity_mapping)[k].key :
        k \in 1..Len(RelationGroups(relations_list, entity_mapping))}

\* C34: _generate_relation_id is injective before hashing: two different
\* triples of source id, relation type and target id never give the same text.
C34_RelationIdInjective ==
    \A k1, k2 \in RelationKeys :
        GenerateRelationId(k1[1], k1[2], k1[3]) = GenerateRelationId(k2[1], k2[2], k2[3])
            => k1 = k2

\* triples whose ids hold no colon have different texts
C34_InjectiveWithoutColons ==
    \A k1, k2 \in RelationKeys :
        /\ \A n \in {k1[1], k1[2], k1[3], k2[1], k2[2], k2[3]} : ":" \notin Range(n)
        /\ GenerateRelationId(k1[1], k1[2], k1[3]) = GenerateRelationId(k2[1], k2[2], k2[3])
        => k1 = k2

-----------------------------------------------------------------------------
(* Agent-only fields: batches of extracted records that carry a value for   *)
(* cleanDescription, handled by the systematic path and, when that raises,  *)
(* by process_batch.                                                        *)

CleanC == <<"c">>

AgentRecords ==
    << EntityData("Person", <<"m">>,
                  [email |-> Lst(<< <<"e">> >>), cleanDescription |-> Str(CleanC)]),
       EntityData("Person", <<"j">>, Dict1("cleanDescription", Str(CleanC))),
       EntityData("Person", <<"k">>,
                  [email |-> Str(<<"f">>), cleanDescription |-> Str(CleanC)]),
       EntityData("Team", <<"j">>, Dict1("description", Str(D1))) >>

AgentBatches == UNION {[1..n -> Range(AgentRecords)] : n \in 0..MaxItems}

ANext ==
    \/ \E b \in AgentBatches, rels \in ErrRelationLists, s \in SourceIds :
          ReceiveBatch(b, rels, s)
    \/ ProcessEntitiesSystematic
    \/ ProcessEntitiesRaises
    \/ MergeGroup
    \/ ProcessRelationGroup
    \/ FinishBatch
    \/ LegacyEntity
    \/ LegacyRelation
    \/ FinishLegacy
    \/ BatchRaised

SpecAgent == EInit /\ [][ANext]_vars

\* the fields of the entity type whose merge strategy is agent_only
AgentOnlyFields(entity_type) ==
    {f \in DOMAIN GetDbFields(entity_type) :
        GetMergeStrategy(entity_type, f) = "agent_only"}

\* C35: no merge path writes an agent-only field from extracted data: no stored
\* entity holds a value for such a field (no write of a batch is flagged as
\* agent-originated, and the store starts without such values).
C35_AgentOnlyNeverWritten ==
    \A n \in store : DOMAIN n \cap AgentOnlyFields(n["type"]) = {}

\* process_batch does not write an agent-only value: a node it writes has only
\* the agent-only values the node had before
C35_LegacyDropsAgentOnly ==
    [][pc = "legacy" =>
          \A n \in store' \ store :
              \A f \in DOMAIN n \cap AgentOnlyFields(n["type"]) :
                  \E o \in NodeNamed(store, n["name"].v) : f \in DOMAIN o /\ o[f] = n[f]]_vars

-----------------------------------------------------------------------------
(* The fallback of _entities_match                                         *)

\* the name of the record, case-folded and trimmed
FoldedName(r) == Strip(Lower(r.attributes["name"].v))

\* C36: without a rule for the entity type, two records of the type match
\* exactly when their names are equal after case-folding and trimming and are
\* not empty, and the match has the confidence 0.70 (in hundredths: 70).
C36_FallbackNameMatch ==
    \A p \in FallbackPairs :
        LET result == EntitiesMatch(ItemOf(batch, p[1]), ItemOf(batch, p[2]))
        IN  IF FoldedName(batch[p[1]]) # <<>>
               /\ FoldedName(batch[p[1]]) = FoldedName(batch[p[2]])
            THEN result.matches /\ result.confidence = 70
            ELSE ~result.matches

\* two records without a rule for their type whose names are written
\* differently have matched and are in one group
C36_Witness ==
    /\ pc = "grouped"
    /\ \E p \in FallbackPairs :
          /\ batch[p[1]].entity_name # batch[p[2]].entity_name
          /\ EntitiesMatch(ItemOf(batch, p[1]), ItemOf(batch, p[2])).reason
                = "basic_name_match"
          /\ \E g \in 1..Len(groups) : {p[1], p[2]} \subseteq GroupIdx(groups[g])

-----------------------------------------------------------------------------
(* Embedding specification: the provider has an inference provider, and the *)
(* embedder returns a vector, returns nothing or raises at every call.      *)

EmbedEntities ==
    << EntityData("Team", <<"a">>, Dict1("description", Str(D1))),
       EntityData("Team", <<"k">>, << >>) >>

EmbedRelationLists == { << RelationData(<<"a">>, <<"k">>, <<"t">>, D1, 5) >> }

\* the outcomes of a call of the embedder
CalledOutcomes == EmbedOutcomes \ {"absent"}

BInit ==
    /\ rules = Dict1("Team", <<ExactNameRule(1)>>)
    /\ pc = "idle"
    /\ batch = <<>>
    /\ groups = <<>>
    /\ store = {}
    /\ source_item_id = <<>>
    /\ relations_list = <<>>
    /\ gi = 1
    /\ ri = 1
    /\ entity_mapping = << >>
    /\ calls = <<>>
    /\ rcalls = <<>>
    /\ relStore = <<>>
    /\ prev = [batch |-> <<>>, source_item_id |-> <<>>, store |-> {}, relStore |-> <<>>,
               calls |-> <<>>]
    /\ nbatches = 0
    /\ failures = 0
    /\ CypherIdle
    /\ workers = << >>
    /\ closure = ClosureIdle

BNext ==
    \/ \E rels \in EmbedRelationLists, s \in SourceIds : ReceiveBatch(EmbedEntities, rels, s)
    \/ ProcessEntitiesSystematic
    \/ \E embedded \in CalledOutcomes : MergeGroupWith(embedded)
    \/ \E embedded \in CalledOutcomes : ProcessRelationGroupWith(embedded)
    \/ FinishBatch

SpecEmbed == BInit /\ [][BNext]_vars

\* the embedder was called for the record and gave no vector
EmbeddingFailed(call) ==
    "embedded" \in DOMAIN call /\ call["embedded"] \in {"nothing", "raised"}

\* C37: a failure of the embedder does not block a write: when the embedder
\* raises or returns nothing for an entity creation, an entity update or a
\* relation, the store write is issued, without an embedding vector.
C37_EmbeddingFailureKeepsWrite ==
    /\ \A i \in 1..Len(calls) :
          EmbeddingFailed(calls[i]) =>
             /\ calls[i]["op"] \in {"create_entity", "update_entity"}
             /\ "embedding" \notin DOMAIN calls[i]["properties"]
    /\ \A i \in 1..Len(rcalls) :
          EmbeddingFailed(rcalls[i]) =>
             /\ rcalls[i]["op"] \in {"create_relation", "update_relation"}
             /\ rcalls[i]["embedding"] = <<>>

\* the embedder has raised for an entity creation, for an entity update that
\* the store has carried out, and for a relation that was written
C37_Witness ==
    /\ \E i \in 1..Len(prev.calls) :
          /\ prev.calls[i]["op"] = "create_entity"
          /\ EmbeddingFailed(prev.calls[i]) /\ prev.calls[i]["embedded"] = "raised"
          /\ prev.calls[i]["ok"]
    /\ \E i \in 1..Len(calls) :
          /\ calls[i]["op"] = "update_entity"
          /\ calls[i]["embedded"] = "raised"
          /\ calls[i]["ok"]
    /\ \E i \in 1..Len(rcalls) :
          /\ rcalls[i]["embedded"] = "raised"
          /\ rcalls[i]["op"] = "update_relation"

-----------------------------------------------------------------------------
(* The waits between the attempts of execute_cypher                        *)

\* C38: the wait between successive retries of execute_cypher grows
\* exponentially: each wait is twice the wait before it.
C38_WaitsDouble ==
    \A i \in 2..Len(slept) : slept[i] = 2 * slept[i - 1]

\* the waits grow by two seconds: the i-th wait of a call is 2 * i seconds
C38_WaitsGrowByTwo ==
    \A i \in 1..Len(slept) : slept[i] = 2 * i

-----------------------------------------------------------------------------
(* _apply_transitive_closure_systematic, statement by statement: the groups *)
(* of step 2 are merged by the loops of the function, one comparison of a   *)
(* group with the merge set at a time.                                      *)

\* records whose groups of step 2 overlap in a chain: the group of j meets
\* the group of k through the address e, the group of k meets the group of n
\* through the address f, and the group of j does not meet the group of n
ChainRecords ==
    << EntityData("Person", <<"j">>, << >>),
       EntityData("Person", <<"n">>, << >>),
       EntityData("Person", <<"k">>, Dict1("email", Str(<<"e">>))),
       EntityData("Person", <<"j">>, Dict1("emails", Lst(<< <<"e">> >>))),
       EntityData("Person", <<"n">>, Dict1("emails", Lst(<< <<"f">> >>))),
       EntityData("Person", <<"k">>, Dict1("email", Str(<<"f">>))) >>

RECURSIVE Reversed(_)
Reversed(s) == IF s = <<>> THEN <<>> ELSE Append(Reversed(Tail(s)), Head(s))

\* the records of ChainRecords at the positions of S, in order
ChainBatch(S) == SelectSeq(ChainRecords, LAMBDA r : \E k \in S : ChainRecords[k] = r)

\* the batches of the closure specification: every selection of the chain
\* records, in their order and in the opposite order
ClosureBatches ==
    {ChainBatch(S) : S \in SUBSET (1..Len(ChainRecords))}
    \cup {Reversed(ChainBatch(S)) : S \in SUBSET (1..Len(ChainRecords))}

ClosureRuleConfigs ==
    {Dict1("Person", rl) : rl \in {<<>>, <<ExactNameRule(1), SearchEmailRule(2)>>}}

\* the call _apply_transitive_closure_systematic(groups) before its first
\* statement; passes and before are the number of passes of `while changed`
\* in this outer iteration and the size of the merge set when the last pass
\* began; overlaps holds the pairs of groups with a pair of items for which
\* _entities_match answers yes, which depends on the two groups only
ClosureCalled(gs) ==
    [at |-> "called", gs |-> gs, i |-> 1, j |-> 1, to_merge |-> <<>>,
     processed |-> {}, changed |-> FALSE, merged_groups |-> <<>>,
     passes |-> 0, before |-> 0,
     overlaps |-> {p \in (1..Len(gs)) \X (1..Len(gs)) : ShouldMerge(gs, <<p[1]>>, p[2])}]

TInit ==
    /\ rules \in ClosureRuleConfigs
    /\ batch \in ClosureBatches
    /\ pc = "input"
    /\ groups = <<>>
    /\ store = {}
    /\ source_item_id = <<>>
    /\ relations_list = <<>>
    /\ gi = 1
    /\ ri = 1
    /\ entity_mapping = << >>
    /\ calls = <<>>
    /\ rcalls = <<>>
    /\ relStore = <<>>
    /\ prev = [batch |-> <<>>, source_item_id |-> <<>>, store |-> {}, relStore |-> <<>>,
               calls |-> <<>>]
    /\ nbatches = 0
    /\ failures = 0
    /\ CypherIdle
    /\ workers = << >>
    /\ \E gs \in {InitialGroups(EntityItems(batch), 1, {})} : closure = ClosureCalled(gs)

\* a bug: a group that is already in the merge set is compared again
ClosureSkipsProcessed(j, to_merge, processed) == j \in processed

\* `if j in to_merge_indices or j in processed: continue`
ClosureSkips(j, to_merge, processed) == j \in Range(to_merge) \/ j \in processed

\* "Check if any items in group2 match any items in our merged groups"
ShouldMergeOf(overlaps, to_merge, j) ==
    \E m \in 1..Len(to_merge) : <<to_merge[m], j>> \in overlaps

\* `if len(groups) <= 1: return groups`, else the locals before the loop
ClosureEnter ==
    /\ closure.at = "called"
    /\ closure' = IF Len(closure.gs) <= 1
                  THEN [closure EXCEPT !.at = "done", !.merged_groups = closure.gs]
                  ELSE [closure EXCEPT !.at = "for_i"]
    /\ UNCHANGED <<pvars, cvars, workers>>

\* `for i, group1 in enumerate(groups)` up to `changed = True`, and
\* `return merged_groups` when the groups are exhausted
ClosureNextGroup ==
    /\ closure.at = "for_i"
    /\ closure' =
          IF closure.i > Len(closure.gs) THEN [closure EXCEPT !.at = "done"]
          ELSE IF closure.i \in closure.processed
               THEN [closure EXCEPT !.i = closure.i + 1]
               ELSE [closure EXCEPT !.at = "while", !.to_merge = <<closure.i>>,
                                    !.changed = TRUE, !.passes = 0, !.before = 0]
    /\ UNCHANGED <<pvars, cvars, workers>>

\* `while changed:` and `changed = False`
ClosureWhileTest ==
    /\ closure.at = "while"
    /\ closure' =
          IF closure.changed
          THEN [closure EXCEPT !.at = "for_j", !.changed = FALSE, !.j = 1,
                               !.passes = closure.passes + 1,
                               !.before = Cardinality(Range(closure.to_merge))]
          ELSE [closure EXCEPT !.at = "merge"]
    /\ UNCHANGED <<pvars, cvars, workers>>

\* one turn of `for j, group2 in enumerate(groups)`
ClosureCompare ==
    /\ closure.at = "for_j"
    /\ closure' =
          IF closure.j > Len(closure.gs) THEN [closure EXCEPT !.at = "while"]
          ELSE IF ClosureSkips(closure.j, closure.to_merge, closure.processed)
               THEN [closure EXCEPT !.j = closure.j + 1]
               ELSE IF ShouldMergeOf(closure.overlaps, closure.to_merge, closure.j)
                    THEN [closure EXCEPT !.j = closure.j + 1, !.changed = TRUE,
                                         !.to_merge = Append(closure.to_merge, closure.j)]
                    ELSE [closure EXCEPT !.j = closure.j + 1]
    /\ UNCHANGED <<pvars, cvars, workers>>

\* "Merge all groups into one" and `processed.update(to_merge_indices)`
ClosureMerge ==
    /\ closure.at = "merge"
    /\ LET merged_group ==
               IF Len(closure.to_merge) > 1
               THEN NewGroup(<<"merged", closure.gs[1].entity_type, closure.i - 1>>,
                             closure.gs[closure.i].entity_type,
                             ConcatItems(closure.gs, closure.to_merge))
               ELSE closure.gs[closure.i]
       IN  closure' = [closure EXCEPT
                          !.at = "for_i", !.i = closure.i + 1,
                          !.merged_groups = Append(closure.merged_groups, merged_group),
                          !.processed = closure.processed \cup Range(closure.to_merge)]
    /\ UNCHANGED <<pvars, cvars, workers>>

TNext ==
    \/ ClosureEnter
    \/ ClosureNextGroup
    \/ ClosureWhileTest
    \/ ClosureCompare
    \/ ClosureMerge

SpecClosure == TInit /\ [][TNext]_vars

\* the function runs without awaiting anything: its next statement is taken
SpecClosureFair == SpecClosure /\ WF_vars(TNext)

\* a pass of `while changed` that has set `changed` has added a group index
\* that the merge set did not hold
PassGrowsMergeSet ==
    (closure.at = "while" /\ closure.passes > 0 /\ closure.changed)
        => Cardinality(Range(closure.to_merge)) > closure.before

\* an outer iteration runs at most len(groups) passes of `while changed`
PassesBounded == closure.passes <= Len(closure.gs)

\* every group handed in lies in exactly one of the groups returned, and no
\* item is returned twice
EveryGroupInOneOutput ==
    closure.at = "done" =>
        /\ \A g \in 1..Len(closure.gs) :
              Cardinality({o \in 1..Len(closure.merged_groups) :
                              GroupIdx(closure.gs[g])
                                 \subseteq GroupIdx(closure.merged_groups[o])}) = 1
        /\ \A o \in 1..Len(closure.merged_groups) :
              Cardinality(GroupIdx(closure.merged_groups[o]))
                 = Len(closure.merged_groups[o].items)
        /\ \A o1, o2 \in 1..Len(closure.merged_groups) :
              o1 # o2 => GroupIdx(closure.merged_groups[o1])
                            \cap GroupIdx(closure.merged_groups[o2]) = {}

\* the loops return what the function computes as a whole
ClosureReturnsClosure ==
    closure.at = "done" => closure.merged_groups = ApplyTransitiveClosureSystematic(closure.gs)

\* C39: _apply_transitive_closure_systematic terminates for every finite list
\* of groups: each pass of the inner `while changed` loop that sets `changed`
\* adds at least one new group index to the merge set, so the loop runs at
\* most len(groups) passes per outer iteration, and every input group ends up
\* in exactly one output group.
C39_ClosureTerminates ==
    /\ [](PassGrowsMergeSet /\ PassesBounded /\ EveryGroupInOneOutput)
    /\ <>(closure.at = "done")

\* three groups were handed in, the first outer iteration has run three
\* passes, two of which added a group, and the function has returned one group
C39_Witness ==
    /\ closure.at = "done"
    /\ Len(closure.gs) = 3
    /\ closure.passes = 3
    /\ Len(closure.merged_groups) = 1
    /\ closure.to_merge = <<1, 3, 2>>

====
